---- MODULE Spec2Model ----
(***************************************************************************)
(* A model of the puzzle generator, the override store, the validator and  *)
(* the scorer of NFL StatPad (src/game/puzzle_generator.py,                *)
(* src/game/validator.py, src/game/scorer.py, src/config.py).              *)
(*                                                                         *)
(* Python values are modelled as follows.  None in a string-valued field   *)
(* is the string None (no catalog string equals it); a nullable numeric    *)
(* column of the stats table is a pair (is-null flag, value), as in the    *)
(* Arrow layout Polars uses.  Stat values are integers.  A percentile is   *)
(* kept in tenths (1000 is 100.0), which is exact because the code rounds  *)
(* every percentile to one decimal.                                        *)
(***************************************************************************)
EXTENDS Integers, Sequences, FiniteSets, TLC

Max(S) == CHOOSE x \in S : \A y \in S : y <= x

Range(s) == {s[i] : i \in DOMAIN s}

None == "None"

\* Python truthiness of an optional string (criteria.get('team')): None and
\* the empty string are both falsy.
Truthy(v) == v # None /\ v # ""

-----------------------------------------------------------------------------
(* src/config.py                                                           *)

CURRENT_YEAR == 2024

StatKeys == <<"passing_yards", "passing_tds", "completions", "passer_rating",
    "rushing_yards", "rushing_tds", "rushing_attempts", "receiving_yards",
    "receiving_tds", "receptions", "sacks", "interceptions",
    "tackles_total", "forced_fumbles", "fantasy_points", "fantasy_points_ppr">>

STAT_CATEGORIES ==
  [k \in Range(StatKeys) |->
    CASE k = "passing_yards" ->
         [display_name |-> "PASS YDS", type |-> "PASSING", description |-> "Passing Yards",
          eligible_positions |-> <<"QB">>]
      [] k = "passing_tds" ->
         [display_name |-> "PASS TD", type |-> "PASSING", description |-> "Passing Touchdowns",
          eligible_positions |-> <<"QB">>]
      [] k = "completions" ->
         [display_name |-> "COMP", type |-> "PASSING", description |-> "Completions",
          eligible_positions |-> <<"QB">>]
      [] k = "passer_rating" ->
         [display_name |-> "RTG", type |-> "PASSING", description |-> "Passer Rating",
          eligible_positions |-> <<"QB">>]
      [] k = "rushing_yards" ->
         [display_name |-> "RUSH YDS", type |-> "RUSHING", description |-> "Rushing Yards",
          eligible_positions |-> <<"QB", "RB", "WR", "FB">>]
      [] k = "rushing_tds" ->
         [display_name |-> "RUSH TD", type |-> "RUSHING", description |-> "Rushing Touchdowns",
          eligible_positions |-> <<"QB", "RB", "WR", "FB">>]
      [] k = "rushing_attempts" ->
         [display_name |-> "RUSH ATT", type |-> "RUSHING", description |-> "Rushing Attempts",
          eligible_positions |-> <<"QB", "RB", "WR", "FB">>]
      [] k = "receiving_yards" ->
         [display_name |-> "REC YDS", type |-> "RECEIVING", description |-> "Receiving Yards",
          eligible_positions |-> <<"WR", "TE", "RB", "FB">>]
      [] k = "receiving_tds" ->
         [display_name |-> "REC TD", type |-> "RECEIVING", description |-> "Receiving Touchdowns",
          eligible_positions |-> <<"WR", "TE", "RB", "FB">>]
      [] k = "receptions" ->
         [display_name |-> "REC", type |-> "RECEIVING", description |-> "Receptions",
          eligible_positions |-> <<"WR", "TE", "RB", "FB">>]
      [] k = "sacks" ->
         [display_name |-> "SACKS", type |-> "DEFENSE", description |-> "Sacks",
          eligible_positions |-> <<"DE", "DT", "LB", "OLB", "ILB", "MLB", "EDGE">>]
      [] k = "interceptions" ->
         [display_name |-> "INT", type |-> "DEFENSE", description |-> "Interceptions",
          eligible_positions |-> <<"CB", "S", "FS", "SS", "DB", "LB", "OLB", "ILB", "MLB">>]
      [] k = "tackles_total" ->
         [display_name |-> "TACKLES", type |-> "DEFENSE", description |-> "Total Tackles",
          eligible_positions |-> <<"CB", "S", "FS", "SS", "DB", "LB", "OLB", "ILB", "MLB", "DE", "DT">>]
      [] k = "forced_fumbles" ->
         [display_name |-> "FF", type |-> "DEFENSE", description |-> "Forced Fumbles",
          eligible_positions |-> <<"CB", "S", "FS", "SS", "DB", "LB", "OLB", "ILB", "MLB", "DE", "DT">>]
      [] k = "fantasy_points" ->
         [display_name |-> "FPTS", type |-> "FANTASY", description |-> "Fantasy Points (Standard)",
          eligible_positions |-> <<"QB", "RB", "WR", "TE", "FB">>]
      [] k = "fantasy_points_ppr" ->
         [display_name |-> "FPTS PPR", type |-> "FANTASY", description |-> "Fantasy Points (PPR)",
          eligible_positions |-> <<"QB", "RB", "WR", "TE", "FB">>]]

TeamKeys == <<"ARI", "ATL", "BAL", "BUF", "CAR", "CHI", "CIN", "CLE",
    "DAL", "DEN", "DET", "GB", "HOU", "IND", "JAX", "KC",
    "LAC", "LAR", "LV", "MIA", "MIN", "NE", "NO", "NYG",
    "NYJ", "PHI", "PIT", "SEA", "SF", "TB", "TEN", "WAS">>

NFL_TEAMS ==
  [t \in Range(TeamKeys) |->
    CASE t = "ARI" -> [name |-> "Arizona Cardinals", division |-> "NFC West"]
      [] t = "ATL" -> [name |-> "Atlanta Falcons", division |-> "NFC South"]
      [] t = "BAL" -> [name |-> "Baltimore Ravens", division |-> "AFC North"]
      [] t = "BUF" -> [name |-> "Buffalo Bills", division |-> "AFC East"]
      [] t = "CAR" -> [name |-> "Carolina Panthers", division |-> "NFC South"]
      [] t = "CHI" -> [name |-> "Chicago Bears", division |-> "NFC North"]
      [] t = "CIN" -> [name |-> "Cincinnati Bengals", division |-> "AFC North"]
      [] t = "CLE" -> [name |-> "Cleveland Browns", division |-> "AFC North"]
      [] t = "DAL" -> [name |-> "Dallas Cowboys", division |-> "NFC East"]
      [] t = "DEN" -> [name |-> "Denver Broncos", division |-> "AFC West"]
      [] t = "DET" -> [name |-> "Detroit Lions", division |-> "NFC North"]
      [] t = "GB" -> [name |-> "Green Bay Packers", division |-> "NFC North"]
      [] t = "HOU" -> [name |-> "Houston Texans", division |-> "AFC South"]
      [] t = "IND" -> [name |-> "Indianapolis Colts", division |-> "AFC South"]
      [] t = "JAX" -> [name |-> "Jacksonville Jaguars", division |-> "AFC South"]
      [] t = "KC" -> [name |-> "Kansas City Chiefs", division |-> "AFC West"]
      [] t = "LAC" -> [name |-> "Los Angeles Chargers", division |-> "AFC West"]
      [] t = "LAR" -> [name |-> "Los Angeles Rams", division |-> "NFC West"]
      [] t = "LV" -> [name |-> "Las Vegas Raiders", division |-> "AFC West"]
      [] t = "MIA" -> [name |-> "Miami Dolphins", division |-> "AFC East"]
      [] t = "MIN" -> [name |-> "Minnesota Vikings", division |-> "NFC North"]
      [] t = "NE" -> [name |-> "New England Patriots", division |-> "AFC East"]
      [] t = "NO" -> [name |-> "New Orleans Saints", division |-> "NFC South"]
      [] t = "NYG" -> [name |-> "New York Giants", division |-> "NFC East"]
      [] t = "NYJ" -> [name |-> "New York Jets", division |-> "AFC East"]
      [] t = "PHI" -> [name |-> "Philadelphia Eagles", division |-> "NFC East"]
      [] t = "PIT" -> [name |-> "Pittsburgh Steelers", division |-> "AFC North"]
      [] t = "SEA" -> [name |-> "Seattle Seahawks", division |-> "NFC West"]
      [] t = "SF" -> [name |-> "San Francisco 49ers", division |-> "NFC West"]
      [] t = "TB" -> [name |-> "Tampa Bay Buccaneers", division |-> "NFC South"]
      [] t = "TEN" -> [name |-> "Tennessee Titans", division |-> "AFC South"]
      [] t = "WAS" -> [name |-> "Washington Commanders", division |-> "NFC East"]]

\* The two shapes of a STAT_QUALIFIERS entry, as records over one set of
\* fields; has_max_rank / has_min_rank say whether the key is present
\* (qualifier_info.get('max_rank') is not None).
FantasyRank(display, position, rank_column, has_max, has_min, bound, stat_types) ==
  [display |-> display, type |-> "fantasy_rank", position |-> position,
   rank_column |-> rank_column,
   has_max_rank |-> has_max, max_rank |-> IF has_max THEN bound ELSE 0,
   has_min_rank |-> has_min, min_rank |-> IF has_min THEN bound ELSE 0,
   column |-> None, operator |-> None, value |-> 0,
   qualifier_type |-> "same_season",
   eligible_positions |-> << >>, eligible_stat_types |-> stat_types]

Threshold(display, column, operator, value, positions, stat_types) ==
  [display |-> display, type |-> "threshold", position |-> None,
   rank_column |-> None,
   has_max_rank |-> FALSE, max_rank |-> 0,
   has_min_rank |-> FALSE, min_rank |-> 0,
   column |-> column, operator |-> operator, value |-> value,
   qualifier_type |-> "same_season",
   eligible_positions |-> positions, eligible_stat_types |-> stat_types]

QualifierKeys == <<"fantasy_top_5_qb", "fantasy_top_10_qb", "fantasy_outside_top_10_qb",
    "fantasy_top_5_rb", "fantasy_top_10_rb", "fantasy_outside_top_10_rb",
    "fantasy_top_5_wr", "fantasy_top_10_wr", "fantasy_outside_top_10_wr",
    "fantasy_top_5_te", "fantasy_top_10_te", "qb_300_rush_yards",
    "qb_500_rush_yards", "qb_5_rush_tds", "qb_under_10_int",
    "qb_4000_pass_yards", "qb_30_pass_tds", "rb_1000_rush_yards",
    "rb_50_receptions", "rb_10_rush_tds", "rb_under_500_rush_yards",
    "wr_1000_rec_yards", "wr_100_receptions", "wr_10_rec_tds",
    "wr_under_50_receptions", "any_200_fantasy_pts", "any_300_fantasy_pts">>

STAT_QUALIFIERS ==
  [k \in Range(QualifierKeys) |->
    CASE k = "fantasy_top_5_qb" ->
         FantasyRank("Top 5 Fantasy QB", "QB", "fantasy_points", TRUE, FALSE, 5,
           <<"PASSING", "RUSHING", "FANTASY">>)
      [] k = "fantasy_top_10_qb" ->
         FantasyRank("Top 10 Fantasy QB", "QB", "fantasy_points", TRUE, FALSE, 10,
           <<"PASSING", "RUSHING", "FANTASY">>)
      [] k = "fantasy_outside_top_10_qb" ->
         FantasyRank("Outside Top 10 Fantasy QB", "QB", "fantasy_points", FALSE, TRUE, 11,
           <<"PASSING", "RUSHING", "FANTASY">>)
      [] k = "fantasy_top_5_rb" ->
         FantasyRank("Top 5 Fantasy RB", "RB", "fantasy_points_ppr", TRUE, FALSE, 5,
           <<"RUSHING", "RECEIVING", "FANTASY">>)
      [] k = "fantasy_top_10_rb" ->
         FantasyRank("Top 10 Fantasy RB", "RB", "fantasy_points_ppr", TRUE, FALSE, 10,
           <<"RUSHING", "RECEIVING", "FANTASY">>)
      [] k = "fantasy_outside_top_10_rb" ->
         FantasyRank("Outside Top 10 Fantasy RB", "RB", "fantasy_points_ppr", FALSE, TRUE, 11,
           <<"RUSHING", "RECEIVING", "FANTASY">>)
      [] k = "fantasy_top_5_wr" ->
         FantasyRank("Top 5 Fantasy WR", "WR", "fantasy_points_ppr", TRUE, FALSE, 5,
           <<"RECEIVING", "FANTASY">>)
      [] k = "fantasy_top_10_wr" ->
         FantasyRank("Top 10 Fantasy WR", "WR", "fantasy_points_ppr", TRUE, FALSE, 10,
           <<"RECEIVING", "FANTASY">>)
      [] k = "fantasy_outside_top_10_wr" ->
         FantasyRank("Outside Top 10 Fantasy WR", "WR", "fantasy_points_ppr", FALSE, TRUE, 11,
           <<"RECEIVING", "FANTASY">>)
      [] k = "fantasy_top_5_te" ->
         FantasyRank("Top 5 Fantasy TE", "TE", "fantasy_points_ppr", TRUE, FALSE, 5,
           <<"RECEIVING", "FANTASY">>)
      [] k = "fantasy_top_10_te" ->
         FantasyRank("Top 10 Fantasy TE", "TE", "fantasy_points_ppr", TRUE, FALSE, 10,
           <<"RECEIVING", "FANTASY">>)
      [] k = "qb_300_rush_yards" ->
         Threshold("300+ Rush Yards", "rushing_yards", ">=", 300,
           <<"QB">>, <<"PASSING">>)
      [] k = "qb_500_rush_yards" ->
         Threshold("500+ Rush Yards", "rushing_yards", ">=", 500,
           <<"QB">>, <<"PASSING">>)
      [] k = "qb_5_rush_tds" ->
         Threshold("5+ Rush TDs", "rushing_tds", ">=", 5,
           <<"QB">>, <<"PASSING">>)
      [] k = "qb_under_10_int" ->
         Threshold("Under 10 INTs", "interceptions_thrown", "<", 10,
           <<"QB">>, <<"PASSING">>)
      [] k = "qb_4000_pass_yards" ->
         Threshold("4000+ Pass Yards", "passing_yards", ">=", 4000,
           <<"QB">>, <<"PASSING">>)
      [] k = "qb_30_pass_tds" ->
         Threshold("30+ Pass TDs", "passing_tds", ">=", 30,
           <<"QB">>, <<"PASSING">>)
      [] k = "rb_1000_rush_yards" ->
         Threshold("1000+ Rush Yards", "rushing_yards", ">=", 1000,
           <<"RB", "FB">>, <<"RUSHING">>)
      [] k = "rb_50_receptions" ->
         Threshold("50+ Receptions", "receptions", ">=", 50,
           <<"RB", "FB">>, <<"RUSHING", "RECEIVING">>)
      [] k = "rb_10_rush_tds" ->
         Threshold("10+ Rush TDs", "rushing_tds", ">=", 10,
           <<"RB", "FB">>, <<"RUSHING">>)
      [] k = "rb_under_500_rush_yards" ->
         Threshold("Under 500 Rush Yards", "rushing_yards", "<", 500,
           <<"RB", "FB">>, <<"RECEIVING">>)
      [] k = "wr_1000_rec_yards" ->
         Threshold("1000+ Rec Yards", "receiving_yards", ">=", 1000,
           <<"WR", "TE">>, <<"RECEIVING">>)
      [] k = "wr_100_receptions" ->
         Threshold("100+ Receptions", "receptions", ">=", 100,
           <<"WR", "TE">>, <<"RECEIVING">>)
      [] k = "wr_10_rec_tds" ->
         Threshold("10+ Rec TDs", "receiving_tds", ">=", 10,
           <<"WR", "TE">>, <<"RECEIVING">>)
      [] k = "wr_under_50_receptions" ->
         Threshold("Under 50 Receptions", "receptions", "<", 50,
           <<"WR", "TE">>, <<"RECEIVING">>)
      [] k = "any_200_fantasy_pts" ->
         Threshold("200+ Fantasy Pts", "fantasy_points", ">=", 200,
           <<"QB", "RB", "WR", "TE", "FB">>, <<"PASSING", "RUSHING", "RECEIVING", "FANTASY">>)
      [] k = "any_300_fantasy_pts" ->
         Threshold("300+ Fantasy Pts", "fantasy_points", ">=", 300,
           <<"QB", "RB", "WR", "TE", "FB">>, <<"PASSING", "RUSHING", "RECEIVING", "FANTASY">>)]
\* TEAM_NAME_MAPPINGS: data abbreviation -> config abbreviation.
TEAM_NAME_MAPPINGS ==
  [t \in {"OAK", "SD", "STL", "PHO", "RAI", "RAM", "LA"} |->
    CASE t = "OAK" -> "LV"
      [] t = "SD" -> "LAC"
      [] t = "STL" -> "LAR"
      [] t = "PHO" -> "ARI"
      [] t = "RAI" -> "LV"
      [] t = "RAM" -> "LAR"
      [] t = "LA" -> "LAR"]

\* REVERSE_TEAM_MAPPINGS: config abbreviation -> data abbreviations.
REVERSE_TEAM_MAPPINGS ==
  [t \in {"LV", "LAC", "LAR", "ARI"} |->
    CASE t = "LV" -> <<"LV", "OAK", "RAI">>
      [] t = "LAC" -> <<"LAC", "SD">>
      [] t = "LAR" -> <<"LAR", "LA", "STL", "RAM">>
      [] t = "ARI" -> <<"ARI", "PHO">>]

DIVISIONS ==
  <<"AFC East", "AFC North", "AFC South", "AFC West",
    "NFC East", "NFC North", "NFC South", "NFC West">>

CONFERENCES == <<"AFC", "NFC">>

POSITION_GROUPS ==
  [g \in {"QB", "RB", "WR", "TE", "OL", "DL", "LB", "DB", "K", "P"} |->
    CASE g = "QB" -> <<"QB">>
      [] g = "RB" -> <<"RB", "FB">>
      [] g = "WR" -> <<"WR">>
      [] g = "TE" -> <<"TE">>
      [] g = "OL" -> <<"OT", "OG", "C", "T", "G">>
      [] g = "DL" -> <<"DE", "DT", "NT">>
      [] g = "LB" -> <<"LB", "OLB", "ILB", "MLB", "EDGE">>
      [] g = "DB" -> <<"CB", "S", "FS", "SS", "DB">>
      [] g = "K" -> <<"K">>
      [] g = "P" -> <<"P">>]

\* Tier thresholds, in tenths of a percentile point.
TIER_THRESHOLDS ==
  [t \in {"diamond", "gold", "silver", "bronze", "iron"} |->
    CASE t = "diamond" -> 1000
      [] t = "gold" -> 900
      [] t = "silver" -> 750
      [] t = "bronze" -> 500
      [] t = "iron" -> 0]

\* get_compatible_qualifiers(stat_category): the catalog keys, in catalog
\* order, whose eligible_stat_types holds the category's type and whose
\* eligible_positions (when not empty) share a position with the category.
get_compatible_qualifiers(stat_category) ==
  LET known == stat_category \in DOMAIN STAT_CATEGORIES
      stat_type == IF known THEN STAT_CATEGORIES[stat_category].type ELSE ""
      eligible_positions ==
        IF known THEN STAT_CATEGORIES[stat_category].eligible_positions ELSE << >>
      Compatible(key) ==
        LET qual == STAT_QUALIFIERS[key] IN
          /\ stat_type \in Range(qual.eligible_stat_types)
          /\ \/ qual.eligible_positions = << >>
             \/ \E pos \in Range(qual.eligible_positions) :
                  pos \in Range(eligible_positions)
  IN SelectSeq(QualifierKeys, Compatible)

-----------------------------------------------------------------------------
(* The pseudo-random generator.  random.Random(seed) is a generator whose   *)
(* whole state is fixed by the seed; every draw reads the state and         *)
(* advances it.  The Mersenne Twister is replaced by a 16-bit linear        *)
(* congruential generator with the same interface: what the model keeps is  *)
(* that a draw is a function of the generator state alone.                  *)

Random(seed) == (seed.hi * 31 + seed.lo) % 65536

RngNext(s) == (s * 25173 + 13849) % 65536

\* rng._randbelow(n): [rng |-> the state after the draw, v |-> a value in 0..n-1]
RandBelow(s, n) == [rng |-> RngNext(s), v |-> (RngNext(s) \div 16) % n]

\* rng.choice(seq) = seq[rng._randbelow(len(seq))]
Choice(s, seq) ==
  LET d == RandBelow(s, Len(seq)) IN [rng |-> d.rng, v |-> seq[d.v + 1]]

\* rng.randint(a, b) = a + rng._randbelow(b - a + 1)
RandInt(s, a, b) ==
  LET d == RandBelow(s, b - a + 1) IN [rng |-> d.rng, v |-> a + d.v]

Swap(x, i, j) == [x EXCEPT ![i] = x[j], ![j] = x[i]]

\* rng.shuffle(x): for i in reversed(range(1, len(x))): j = randbelow(i + 1);
\* x[i], x[j] = x[j], x[i]   (1-based here: i runs from Len(x) down to 2)
RECURSIVE ShuffleFrom(_, _, _)
ShuffleFrom(s, x, i) ==
  IF i < 2 THEN [rng |-> s, v |-> x]
  ELSE LET d == RandBelow(s, i) IN ShuffleFrom(d.rng, Swap(x, i, d.v + 1), i - 1)

Shuffle(s, x) == ShuffleFrom(s, x, Len(x))

-----------------------------------------------------------------------------
(* src/game/puzzle_generator.py: dates and the date seed                    *)

\* A date is [year, month, day]; date.isoformat() is YYYY-MM-DD, the month
\* and the day zero-padded to two digits.
Pad2(n) == IF n < 10 THEN "0" \o ToString(n) ELSE ToString(n)

isoformat(d) == ToString(d.year) \o "-" \o Pad2(d.month) \o "-" \o Pad2(d.day)

MkDate(y, m, d) == [year |-> y, month |-> m, day |-> d]

\* The days of January, February and March 2025
PuzzleDates ==
  {MkDate(2025, m, d) : m \in 1..3, d \in 1..31} \ {MkDate(2025, 2, d) : d \in 29..31}

\* The dates of the model.  The first two differ only in where the digits
\* of month and day fall.
Dates == {MkDate(2025, 1, 11), MkDate(2025, 11, 1), MkDate(2025, 12, 1)}

\* int(hashlib.md5(date_str.encode()).hexdigest()[:8], 16), tabulated for the
\* ISO strings of Dates and PuzzleDates.  The 32-bit value is kept as its two 16-bit halves
\* (hi is the first four hex digits, lo the next four).
MD5Prefix(date_str) ==
  CASE date_str = "2025-01-01" -> [hi |-> 60459, lo |-> 15868]   \* ec2b3dfc
    [] date_str = "2025-01-02" -> [hi |-> 9670, lo |-> 64240]   \* 25c6faf0
    [] date_str = "2025-01-03" -> [hi |-> 15089, lo |-> 55208]   \* 3af1d7a8
    [] date_str = "2025-01-04" -> [hi |-> 32935, lo |-> 51844]   \* 80a7ca84
    [] date_str = "2025-01-05" -> [hi |-> 1621, lo |-> 12789]   \* 065531f5
    [] date_str = "2025-01-06" -> [hi |-> 50659, lo |-> 64413]   \* c5e3fb9d
    [] date_str = "2025-01-07" -> [hi |-> 36696, lo |-> 45545]   \* 8f58b1e9
    [] date_str = "2025-01-08" -> [hi |-> 23010, lo |-> 8054]   \* 59e21f76
    [] date_str = "2025-01-09" -> [hi |-> 22853, lo |-> 50825]   \* 5945c689
    [] date_str = "2025-01-10" -> [hi |-> 8770, lo |-> 15417]   \* 22423c39
    [] date_str = "2025-01-11" -> [hi |-> 31872, lo |-> 51128]   \* 7c80c7b8
    [] date_str = "2025-01-12" -> [hi |-> 30619, lo |-> 5697]   \* 779b1641
    [] date_str = "2025-01-13" -> [hi |-> 20733, lo |-> 40572]   \* 50fd9e7c
    [] date_str = "2025-01-14" -> [hi |-> 39170, lo |-> 31767]   \* 99027c17
    [] date_str = "2025-01-15" -> [hi |-> 41650, lo |-> 25080]   \* a2b261f8
    [] date_str = "2025-01-16" -> [hi |-> 21370, lo |-> 53293]   \* 537ad02d
    [] date_str = "2025-01-17" -> [hi |-> 35745, lo |-> 12179]   \* 8ba12f93
    [] date_str = "2025-01-18" -> [hi |-> 11494, lo |-> 31875]   \* 2ce67c83
    [] date_str = "2025-01-19" -> [hi |-> 64961, lo |-> 20274]   \* fdc14f32
    [] date_str = "2025-01-20" -> [hi |-> 56633, lo |-> 4697]   \* dd391259
    [] date_str = "2025-01-21" -> [hi |-> 53901, lo |-> 38028]   \* d28d948c
    [] date_str = "2025-01-22" -> [hi |-> 17349, lo |-> 25651]   \* 43c56433
    [] date_str = "2025-01-23" -> [hi |-> 47107, lo |-> 36758]   \* b8038f96
    [] date_str = "2025-01-24" -> [hi |-> 14394, lo |-> 42573]   \* 383aa64d
    [] date_str = "2025-01-25" -> [hi |-> 18765, lo |-> 46085]   \* 494db405
    [] date_str = "2025-01-26" -> [hi |-> 56337, lo |-> 50696]   \* dc11c608
    [] date_str = "2025-01-27" -> [hi |-> 55471, lo |-> 34322]   \* d8af8612
    [] date_str = "2025-01-28" -> [hi |-> 52507, lo |-> 2527]   \* cd1b09df
    [] date_str = "2025-01-29" -> [hi |-> 45490, lo |-> 52150]   \* b1b2cbb6
    [] date_str = "2025-01-30" -> [hi |-> 38006, lo |-> 5566]   \* 947615be
    [] date_str = "2025-01-31" -> [hi |-> 48934, lo |-> 62788]   \* bf26f544
    [] date_str = "2025-02-01" -> [hi |-> 65270, lo |-> 43172]   \* fef6a8a4
    [] date_str = "2025-02-02" -> [hi |-> 7564, lo |-> 57807]   \* 1d8ce1cf
    [] date_str = "2025-02-03" -> [hi |-> 45470, lo |-> 59469]   \* b19ee84d
    [] date_str = "2025-02-04" -> [hi |-> 21487, lo |-> 58814]   \* 53efe5be
    [] date_str = "2025-02-05" -> [hi |-> 32815, lo |-> 8708]   \* 802f2204
    [] date_str = "2025-02-06" -> [hi |-> 26555, lo |-> 43944]   \* 67bbaba8
    [] date_str = "2025-02-07" -> [hi |-> 29327, lo |-> 62996]   \* 728ff614
    [] date_str = "2025-02-08" -> [hi |-> 44784, lo |-> 54440]   \* aef0d4a8
    [] date_str = "2025-02-09" -> [hi |-> 57749, lo |-> 31741]   \* e1957bfd
    [] date_str = "2025-02-10" -> [hi |-> 29629, lo |-> 21830]   \* 73bd5546
    [] date_str = "2025-02-11" -> [hi |-> 12049, lo |-> 51000]   \* 2f11c738
    [] date_str = "2025-02-12" -> [hi |-> 62086, lo |-> 52954]   \* f286ceda
    [] date_str = "2025-02-13" -> [hi |-> 18532, lo |-> 60487]   \* 4864ec47
    [] date_str = "2025-02-14" -> [hi |-> 3407, lo |-> 48093]   \* 0d4fbbdd
    [] date_str = "2025-02-15" -> [hi |-> 35381, lo |-> 16297]   \* 8a353fa9
    [] date_str = "2025-02-16" -> [hi |-> 10045, lo |-> 16235]   \* 273d3f6b
    [] date_str = "2025-02-17" -> [hi |-> 57125, lo |-> 19125]   \* df254ab5
    [] date_str = "2025-02-18" -> [hi |-> 50000, lo |-> 48876]   \* c350beec
    [] date_str = "2025-02-19" -> [hi |-> 10846, lo |-> 3054]   \* 2a5e0bee
    [] date_str = "2025-02-20" -> [hi |-> 23871, lo |-> 44371]   \* 5d3fad53
    [] date_str = "2025-02-21" -> [hi |-> 42541, lo |-> 64508]   \* a62dfbfc
    [] date_str = "2025-02-22" -> [hi |-> 3590, lo |-> 75]   \* 0e06004b
    [] date_str = "2025-02-23" -> [hi |-> 32894, lo |-> 17105]   \* 807e42d1
    [] date_str = "2025-02-24" -> [hi |-> 41808, lo |-> 34924]   \* a350886c
    [] date_str = "2025-02-25" -> [hi |-> 32251, lo |-> 4987]   \* 7dfb137b
    [] date_str = "2025-02-26" -> [hi |-> 30991, lo |-> 32361]   \* 790f7e69
    [] date_str = "2025-02-27" -> [hi |-> 28917, lo |-> 11837]   \* 70f52e3d
    [] date_str = "2025-02-28" -> [hi |-> 60309, lo |-> 16022]   \* eb953e96
    [] date_str = "2025-03-01" -> [hi |-> 41277, lo |-> 28009]   \* a13d6d69
    [] date_str = "2025-03-02" -> [hi |-> 43850, lo |-> 34080]   \* ab4a8520
    [] date_str = "2025-03-03" -> [hi |-> 8950, lo |-> 56871]   \* 22f6de27
    [] date_str = "2025-03-04" -> [hi |-> 54068, lo |-> 50367]   \* d334c4bf
    [] date_str = "2025-03-05" -> [hi |-> 35972, lo |-> 53776]   \* 8c84d210
    [] date_str = "2025-03-06" -> [hi |-> 50328, lo |-> 58578]   \* c498e4d2
    [] date_str = "2025-03-07" -> [hi |-> 28411, lo |-> 52578]   \* 6efbcd62
    [] date_str = "2025-03-08" -> [hi |-> 58718, lo |-> 23720]   \* e55e5ca8
    [] date_str = "2025-03-09" -> [hi |-> 15186, lo |-> 22614]   \* 3b525856
    [] date_str = "2025-03-10" -> [hi |-> 33566, lo |-> 46558]   \* 831eb5de
    [] date_str = "2025-03-11" -> [hi |-> 23249, lo |-> 21347]   \* 5ad15363
    [] date_str = "2025-03-12" -> [hi |-> 52779, lo |-> 13688]   \* ce2b3578
    [] date_str = "2025-03-13" -> [hi |-> 4108, lo |-> 32742]   \* 100c7fe6
    [] date_str = "2025-03-14" -> [hi |-> 49103, lo |-> 59310]   \* bfcfe7ae
    [] date_str = "2025-03-15" -> [hi |-> 33136, lo |-> 13327]   \* 8170340f
    [] date_str = "2025-03-16" -> [hi |-> 4561, lo |-> 20459]   \* 11d14feb
    [] date_str = "2025-03-17" -> [hi |-> 27351, lo |-> 29212]   \* 6ad7721c
    [] date_str = "2025-03-18" -> [hi |-> 24513, lo |-> 3452]   \* 5fc10d7c
    [] date_str = "2025-03-19" -> [hi |-> 50997, lo |-> 60745]   \* c735ed49
    [] date_str = "2025-03-20" -> [hi |-> 5123, lo |-> 19019]   \* 14034a4b
    [] date_str = "2025-03-21" -> [hi |-> 30942, lo |-> 30395]   \* 78de76bb
    [] date_str = "2025-03-22" -> [hi |-> 18684, lo |-> 37905]   \* 48fc9411
    [] date_str = "2025-03-23" -> [hi |-> 31106, lo |-> 63812]   \* 7982f944
    [] date_str = "2025-03-24" -> [hi |-> 49810, lo |-> 62242]   \* c292f322
    [] date_str = "2025-03-25" -> [hi |-> 58910, lo |-> 11151]   \* e61e2b8f
    [] date_str = "2025-03-26" -> [hi |-> 12719, lo |-> 14724]   \* 31af3984
    [] date_str = "2025-03-27" -> [hi |-> 4853, lo |-> 29708]   \* 12f5740c
    [] date_str = "2025-03-28" -> [hi |-> 1238, lo |-> 62211]   \* 04d6f303
    [] date_str = "2025-03-29" -> [hi |-> 23912, lo |-> 25341]   \* 5d6862fd
    [] date_str = "2025-03-30" -> [hi |-> 6240, lo |-> 22456]   \* 186057b8
    [] date_str = "2025-03-31" -> [hi |-> 48441, lo |-> 14900]   \* bd393a34
    [] date_str = "2025-11-01" -> [hi |-> 48750, lo |-> 37071]   \* be6e90cf
    [] date_str = "2025-12-01" -> [hi |-> 23222, lo |-> 51707]   \* 5ab6c9fb

get_date_seed(puzzle_date) == MD5Prefix(isoformat(puzzle_date))

-----------------------------------------------------------------------------
(* generate_year_range / generate_criteria / generate_puzzle                *)

MinYear == 1999

\* generate_year_range, after range_size = rng.choice(range_sizes): the draw
\* of start_year and the result
year_range_of(range_size, start_year) ==
  [rng |-> start_year.rng,
   year_start |-> start_year.v,
   year_end |-> start_year.v + range_size]

\* year_range_start that draws the start year up to CURRENT_YEAR
year_range_start_late(range_size) ==
  year_range_of(range_size.v, RandInt(range_size.rng, MinYear, CURRENT_YEAR))

year_range_start(range_size) ==
  year_range_of(range_size.v,
                RandInt(range_size.rng, MinYear, CURRENT_YEAR - range_size.v))

generate_year_range(s) == year_range_start(Choice(s, <<5, 10, 15, 20>>))

\* The criteria dict of generate_criteria before any field is set: every
\* key None (a year that is None is 0 here; the generator and the admin
\* forms always set both years).
EmptyCriteria ==
  [team |-> None, year_start |-> 0, year_end |-> 0, position |-> None,
   division |-> None, conference |-> None, qualifier |-> None,
   qualifier_type |-> None, qualifier_display |-> None]

\* NotIn that keeps the used values
UsedToo(seq, used) == seq

NotIn(seq, used) ==
  LET Free(x) == x \notin used IN SelectSeq(seq, Free)

\* What generate_criteria returns here: the generator after the row's
\* draws, the row's criteria, and the three used sets as the call leaves them.
RowResult(s, criteria, used_teams, used_positions, used_qualifiers) ==
  [rng |-> s, criteria |-> criteria, used_teams |-> used_teams,
   used_positions |-> used_positions, used_qualifiers |-> used_qualifiers]

\* qualifier_criteria that also puts the row in a division
qualifier_in_division(base, pick, qualifier_info, used_teams, used_positions, used_qualifiers) ==
  RowResult(pick.rng,
            [base EXCEPT !.qualifier = pick.v,
                         !.qualifier_type = qualifier_info.qualifier_type,
                         !.qualifier_display = qualifier_info.display,
                         !.division = DIVISIONS[1]],
            used_teams, used_positions, used_qualifiers \cup {pick.v})

\* lines 113-119: the row takes the qualifier the generator picked
qualifier_criteria(base, pick, qualifier_info, used_teams, used_positions, used_qualifiers) ==
  RowResult(pick.rng,
            [base EXCEPT !.qualifier = pick.v,
                         !.qualifier_type = qualifier_info.qualifier_type,
                         !.qualifier_display = qualifier_info.display],
            used_teams, used_positions, used_qualifiers \cup {pick.v})

\* lines 123-139
criteria_options(available_teams, available_positions, eligible_positions) ==
  (IF available_teams # << >> THEN <<"team">> ELSE << >>)
  \o <<"division", "conference">>
  \o (IF available_positions # << >> /\ Len(eligible_positions) > 1
      THEN <<"position">> ELSE << >>)

\* lines 142-149: the first row prefers team
select_criteria_type(s, options, row_index) ==
  IF row_index = 0 /\ "team" \in Range(options)
  THEN [rng |-> s, v |-> "team"]
  ELSE Choice(s, options)

\* lines 152-163, for the drawn value `pick` of the selected kind
apply_selected(base, selected, pick, used_teams, used_positions, used_qualifiers) ==
  CASE selected = "team" ->
         RowResult(pick.rng, [base EXCEPT !.team = pick.v],
                   used_teams \cup {pick.v}, used_positions, used_qualifiers)
    [] selected = "position" ->
         RowResult(pick.rng, [base EXCEPT !.position = pick.v],
                   used_teams, used_positions \cup {pick.v}, used_qualifiers)
    [] selected = "division" ->
         RowResult(pick.rng, [base EXCEPT !.division = pick.v],
                   used_teams, used_positions, used_qualifiers)
    [] selected = "conference" ->
         RowResult(pick.rng, [base EXCEPT !.conference = pick.v],
                   used_teams, used_positions, used_qualifiers)

\* The list the selected kind draws its value from
selected_values(selected, available_teams, available_positions) ==
  CASE selected = "team" -> available_teams
    [] selected = "position" -> available_positions
    [] selected = "division" -> DIVISIONS
    [] selected = "conference" -> CONFERENCES

draw_selected(base, selected, available_teams, available_positions, used_teams, used_positions, used_qualifiers) ==
  apply_selected(base, selected.v,
                 Choice(selected.rng,
                        selected_values(selected.v, available_teams, available_positions)),
                 used_teams, used_positions, used_qualifiers)

\* lines 121-163: the team-based branch
team_based_criteria(base, s, available_teams, available_positions, eligible_positions, used_teams, used_positions, used_qualifiers, row_index) ==
  draw_selected(base,
                select_criteria_type(
                  s,
                  criteria_options(available_teams, available_positions,
                                   eligible_positions),
                  row_index),
                available_teams, available_positions,
                used_teams, used_positions, used_qualifiers)

pick_qualifier(base, pick, used_teams, used_positions, used_qualifiers) ==
  qualifier_criteria(base, pick, STAT_QUALIFIERS[pick.v],
                     used_teams, used_positions, used_qualifiers)

\* lines 99-111: whether the row uses a qualifier.  rng.random() < 0.4 is
\* drawn only when there is no force_type, the row is not the first and a
\* qualifier is available.
draws_coin(available_qualifiers, row_index, force_type) ==
  /\ force_type \notin {"qualifier", "team_based"}
  /\ row_index >= 1
  /\ available_qualifiers # << >>

use_qualifier(coin, available_qualifiers, row_index, force_type) ==
  IF force_type = "qualifier" THEN TRUE
  ELSE IF force_type = "team_based" THEN FALSE
  ELSE draws_coin(available_qualifiers, row_index, force_type) /\ coin.v < 4

criteria_after_coin(base, coin, eligible_positions, available_qualifiers, used_teams, used_positions, used_qualifiers, row_index, force_type) ==
  IF /\ use_qualifier(coin, available_qualifiers, row_index, force_type)
     /\ available_qualifiers # << >>
  THEN pick_qualifier(base, Choice(coin.rng, available_qualifiers),
                      used_teams, used_positions, used_qualifiers)
  ELSE team_based_criteria(base, coin.rng,
                           NotIn(TeamKeys, used_teams),
                           NotIn(eligible_positions, used_positions),
                           eligible_positions,
                           used_teams, used_positions, used_qualifiers, row_index)

criteria_after_years(yr, eligible_positions, available_qualifiers, used_teams, used_positions, used_qualifiers, row_index, force_type) ==
  criteria_after_coin(
    [EmptyCriteria EXCEPT !.year_start = yr.year_start, !.year_end = yr.year_end],
    IF draws_coin(available_qualifiers, row_index, force_type)
    THEN RandBelow(yr.rng, 10) ELSE [rng |-> yr.rng, v |-> 9],
    eligible_positions, available_qualifiers,
    used_teams, used_positions, used_qualifiers, row_index, force_type)

\* generate_criteria(rng, stat_category, stat_info, used_teams,
\* used_positions, used_qualifiers, row_index, force_type): the criteria of
\* one row (a RowResult).  force_type is "team_based", "qualifier" or None.
generate_criteria(s, stat_category, used_teams, used_positions, used_qualifiers, row_index, force_type) ==
  criteria_after_years(
    generate_year_range(s),
    STAT_CATEGORIES[stat_category].eligible_positions,
    NotIn(get_compatible_qualifiers(stat_category), used_qualifiers),
    used_teams, used_positions, used_qualifiers, row_index, force_type)

\* The value that stands for "no puzzle": None, and the empty dict (both are
\* falsy in `if override:`).
NoPuzzle ==
  [date |-> None, stat_category |-> None, stat_display |-> None,
   stat_type |-> None, stat_description |-> None, rows |-> << >>]

\* A call of generate_puzzle in progress: the locals of the call, without
\* the generator (which is kept apart, see rngs).
NewFrame(puzzle_date) ==
  [pc |-> "seed", date |-> puzzle_date, stat_category |-> None,
   row_types |-> << >>, rows |-> << >>, used_teams |-> {},
   used_positions |-> {}, used_qualifiers |-> {}, puzzle |-> NoPuzzle]

\* if row_types[0] == 'qualifier': swap it with the first 'team_based'
SwapWithFirst(row_types, later) ==
  IF later = {} THEN row_types
  ELSE Swap(row_types, 1, CHOOSE i \in later : \A j \in later : i <= j)

\* ForceFirstTeamBased that leaves the shuffled kinds as they are
KeepShuffled(row_types) == row_types

ForceFirstTeamBased(row_types) ==
  IF row_types[1] = "qualifier"
  THEN SwapWithFirst(row_types, {i \in 2..5 : row_types[i] = "team_based"})
  ELSE row_types

Repeat(x, n) == [i \in 1..n |-> x]

StepResult(frame, s) == [frame |-> frame, rng |-> s]

\* line 181
stat_step(f, stat_category) ==
  StepResult([f EXCEPT !.pc = "shape", !.stat_category = stat_category.v],
             stat_category.rng)

\* lines 193-202
shape_rows(f, row_types) ==
  StepResult([f EXCEPT !.pc = "rows",
                       !.row_types = ForceFirstTeamBased(row_types.v)],
             row_types.rng)

\* lines 189-194
shape_step(f, num_qualifier_rows) ==
  shape_rows(f, Shuffle(num_qualifier_rows.rng,
                        Repeat("team_based", 5 - num_qualifier_rows.v)
                          \o Repeat("qualifier", num_qualifier_rows.v)))

\* lines 210-216, row i (0-based), g the result of generate_criteria
row_step(f, i, g) ==
  StepResult([f EXCEPT !.pc = IF i = 4 THEN "assemble" ELSE "rows",
                       !.rows = Append(f.rows, g.criteria),
                       !.used_teams = g.used_teams,
                       !.used_positions = g.used_positions,
                       !.used_qualifiers = g.used_qualifiers],
             g.rng)

\* lines 218-227
assemble_step(f, stat_info, s) ==
  StepResult([f EXCEPT !.pc = "done",
                       !.puzzle =
                          [date |-> isoformat(f.date),
                           stat_category |-> f.stat_category,
                           stat_display |-> stat_info.display_name,
                           stat_type |-> stat_info.type,
                           stat_description |-> stat_info.description,
                           rows |-> f.rows]],
             s)

\* One step of generate_puzzle: f is the frame, s the state of the call's
\* generator.  The steps are: seed (lines 176-177), stat (180-182), shape
\* (189-202), rows (210-216, one row a step), assemble (218-227).
GenStep(f, s) ==
  CASE f.pc = "seed" ->
         StepResult([f EXCEPT !.pc = "stat"], Random(get_date_seed(f.date)))
    [] f.pc = "stat" -> stat_step(f, Choice(s, StatKeys))
    [] f.pc = "shape" -> shape_step(f, Choice(s, <<2, 2, 3>>))
    [] f.pc = "rows" ->
         row_step(f, Len(f.rows),
                  generate_criteria(s, f.stat_category, f.used_teams,
                                    f.used_positions, f.used_qualifiers,
                                    Len(f.rows), f.row_types[Len(f.rows) + 1]))
    [] f.pc = "assemble" -> assemble_step(f, STAT_CATEGORIES[f.stat_category], s)

GenNext(n) == IF n.frame.pc = "done" THEN n ELSE GenStep(n.frame, n.rng)

RECURSIVE GenRun(_)
GenRun(n) == IF n.frame.pc = "done" THEN n.frame.puzzle ELSE GenRun(GenNext(n))

\* generate_puzzle(puzzle_date), run from start to end with a generator of
\* its own (no caller passes the override argument).
generate_puzzle(puzzle_date) == GenRun(StepResult(NewFrame(puzzle_date), 0))

-----------------------------------------------------------------------------
(* The override file: json.dump / json.load                                 *)

\* A leaf of the JSON document is its text: null, a quoted string or the
\* decimal digits of a number; objects and arrays keep their structure.
JsonStr(s) == "\"" \o s \o "\""

EncOpt(v) == IF v = None THEN "null" ELSE JsonStr(v)

DecOpt(j) == IF j = "null" THEN None ELSE SubSeq(j, 2, Len(j) - 1)

EncInt(n) == ToString(n)

DigitVal(c) == CHOOSE d \in 0..9 : ToString(d) = c

RECURSIVE DecInt(_)
DecInt(j) ==
  IF Len(j) = 0 THEN 0
  ELSE 10 * DecInt(SubSeq(j, 1, Len(j) - 1)) + DigitVal(SubSeq(j, Len(j), Len(j)))

EncRow(c) ==
  [team |-> EncOpt(c.team), year_start |-> EncInt(c.year_start),
   year_end |-> EncInt(c.year_end), position |-> EncOpt(c.position),
   division |-> EncOpt(c.division), conference |-> EncOpt(c.conference),
   qualifier |-> EncOpt(c.qualifier), qualifier_type |-> EncOpt(c.qualifier_type),
   qualifier_display |-> EncOpt(c.qualifier_display)]

DecRow(j) ==
  [team |-> DecOpt(j.team), year_start |-> DecInt(j.year_start),
   year_end |-> DecInt(j.year_end), position |-> DecOpt(j.position),
   division |-> DecOpt(j.division), conference |-> DecOpt(j.conference),
   qualifier |-> DecOpt(j.qualifier), qualifier_type |-> DecOpt(j.qualifier_type),
   qualifier_display |-> DecOpt(j.qualifier_display)]

EncPuzzle(p) ==
  [date |-> EncOpt(p.date), stat_category |-> EncOpt(p.stat_category),
   stat_display |-> EncOpt(p.stat_display), stat_type |-> EncOpt(p.stat_type),
   stat_description |-> EncOpt(p.stat_description),
   rows |-> [i \in DOMAIN p.rows |-> EncRow(p.rows[i])]]

DecPuzzle(j) ==
  [date |-> DecOpt(j.date), stat_category |-> DecOpt(j.stat_category),
   stat_display |-> DecOpt(j.stat_display), stat_type |-> DecOpt(j.stat_type),
   stat_description |-> DecOpt(j.stat_description),
   rows |-> [i \in DOMAIN j.rows |-> DecRow(j.rows[i])]]

\* json.dump(overrides, f): the document of a dict keyed by ISO date
JsonDump(overrides) == [k \in DOMAIN overrides |-> EncPuzzle(overrides[k])]

\* json.load(f)
JsonLoad(doc) == [k \in DOMAIN doc |-> DecPuzzle(doc[k])]

\* The override file: whether it exists, the document in it, and whether
\* json.load can parse what is in it (a file cut short or edited by hand
\* cannot be parsed)
NoFile == [exists |-> FALSE, doc |-> [k \in {} |-> EncPuzzle(NoPuzzle)], parseable |-> TRUE]

-----------------------------------------------------------------------------
(* State                                                                    *)

VARIABLES
  gen,      \* gen[p]: the call of generate_puzzle that process p is in
  rngs,     \* rngs[k]: the state of generator k
  seen,     \* seen[d]: the first puzzle a call returned for date d
  file,     \* puzzle_overrides.json: whether it exists, and its document
  writes,   \* the number of writes of the override file so far
  saved,    \* saved[d]: the puzzle last saved for date d and not deleted since
  last,     \* the last operation on the override store and what it returned
  player_db,  \* the player table (st.session_state.player_db)
  res,      \* the last call of the validator or the scorer and what it returned
  session_state,  \* st.session_state: puzzle, submissions, scores, easy_mode,
                  \* total_guesses
  writers   \* writers[p]: where process p is inside save_override or
            \* update_puzzle_row, and the locals it holds

vars == <<gen, rngs, seen, file, writes, saved, last, player_db, res, session_state, writers>>

genVars == <<gen, rngs, seen>>
storeVars == <<file, writes, saved, last, writers>>
gameVars == <<player_db, res, session_state>>

-----------------------------------------------------------------------------
(* The override store: load_overrides, save_override, get_override,         *)
(* get_daily_puzzle, update_puzzle_row, get_current_puzzle_for_editing      *)

\* lines 274-278: json.load raises, and `except: pass` drops the exception
load_fails == file.exists /\ ~file.parseable

load_overrides ==
  IF file.exists /\ ~load_fails THEN JsonLoad(file.doc) ELSE [k \in {} |-> NoPuzzle]

\* save_override that writes the new entry alone
save_override_alone(puzzle_date, puzzle_config) ==
  [exists |-> TRUE,
   doc |-> JsonDump([k \in {isoformat(puzzle_date)} |-> puzzle_config]),
   parseable |-> TRUE]

\* The file after save_override(puzzle_date, puzzle_config)
save_override(puzzle_date, puzzle_config) ==
  LET overrides == load_overrides
      key == isoformat(puzzle_date)
      updated == [k \in DOMAIN overrides \cup {key} |->
                    IF k = key THEN puzzle_config ELSE overrides[k]]
  IN [exists |-> TRUE, doc |-> JsonDump(updated), parseable |-> TRUE]

\* overrides.get(puzzle_date.isoformat()); NoPuzzle is None
get_override(puzzle_date) ==
  LET overrides == load_overrides
      key == isoformat(puzzle_date)
  IN IF key \in DOMAIN overrides THEN overrides[key] ELSE NoPuzzle

\* `if override:` / `if existing:`
IsSet(puzzle) == puzzle # NoPuzzle

\* get_daily_puzzle that does not look at the override file
get_daily_puzzle_generated(today) == generate_puzzle(today)

\* get_daily_puzzle(), with today = get_puzzle_date()
get_daily_puzzle(today) ==
  LET override == get_override(today) IN
    IF IsSet(override) THEN override ELSE generate_puzzle(today)

get_current_puzzle_for_editing(puzzle_date) ==
  LET override == get_override(puzzle_date) IN
    IF IsSet(override) THEN override ELSE generate_puzzle(puzzle_date)

\* update_puzzle_row that starts from a freshly generated puzzle every time
update_puzzle_row_regenerated(puzzle_date, row_index, new_criteria) ==
  IF 0 <= row_index /\ row_index < 5
  THEN [generate_puzzle(puzzle_date) EXCEPT !.rows[row_index + 1] = new_criteria]
  ELSE generate_puzzle(puzzle_date)

\* The puzzle update_puzzle_row(puzzle_date, row_index, new_criteria) saves
\* and returns.  row_index is 0-based.
update_puzzle_row(puzzle_date, row_index, new_criteria) ==
  LET existing == get_override(puzzle_date)
      puzzle == IF IsSet(existing) THEN existing ELSE generate_puzzle(puzzle_date)
  IN IF 0 <= row_index /\ row_index < Len(puzzle.rows)
     THEN [puzzle EXCEPT !.rows[row_index + 1] = new_criteria]
     ELSE puzzle

\* An assignment that starts from an empty dict
assign_override_alone(overrides, puzzle_date, puzzle_config) ==
  [k \in {isoformat(puzzle_date)} |-> puzzle_config]

\* line 285: overrides[puzzle_date.isoformat()] = puzzle_config, on the
\* dict that load_overrides returned to this caller
assign_override(overrides, puzzle_date, puzzle_config) ==
  [k \in DOMAIN overrides \cup {isoformat(puzzle_date)} |->
     IF k = isoformat(puzzle_date) THEN puzzle_config ELSE overrides[k]]

\* lines 286-287: open(OVERRIDE_FILE, 'w') and json.dump(overrides, f): the
\* file holds this caller's dict and nothing else
dump_overrides(overrides) ==
  [exists |-> TRUE, doc |-> JsonDump(overrides), parseable |-> TRUE]

\* admin.py: del overrides[date_str]; json.dump(overrides, f)
delete_override(date_str) ==
  LET overrides == load_overrides IN
    [exists |-> TRUE,
     doc |-> JsonDump([k \in DOMAIN overrides \ {date_str} |-> overrides[k]]),
     parseable |-> TRUE]

-----------------------------------------------------------------------------
(* src/pages/admin.py: what the admin forms pass to the store               *)

\* row_criteria / new_criteria as the forms build it (lines 153-181 and
\* 368-390): criteria_type is team, division, conference, position or
\* qualifier_only; selected_qualifier is a catalog key or "none".
AdminRow(criteria_type, criteria_value, year_start, year_end, selected_qualifier) ==
  LET typed ==
        [EmptyCriteria EXCEPT
           !.year_start = year_start,
           !.year_end = year_end,
           !.team = IF criteria_type = "team" THEN criteria_value ELSE None,
           !.division = IF criteria_type = "division" THEN criteria_value ELSE None,
           !.conference = IF criteria_type = "conference" THEN criteria_value ELSE None,
           !.position = IF criteria_type = "position" THEN criteria_value ELSE None]
  IN IF selected_qualifier # "none"
     THEN [typed EXCEPT
             !.qualifier = selected_qualifier,
             !.qualifier_type = STAT_QUALIFIERS[selected_qualifier].qualifier_type,
             !.qualifier_display = STAT_QUALIFIERS[selected_qualifier].display]
     ELSE typed

\* puzzle_config (lines 189-196)
AdminConfig(puzzle_date, stat_category, rows) ==
  [date |-> isoformat(puzzle_date),
   stat_category |-> stat_category,
   stat_display |-> STAT_CATEGORIES[stat_category].display_name,
   stat_type |-> STAT_CATEGORIES[stat_category].type,
   stat_description |-> STAT_CATEGORIES[stat_category].description,
   rows |-> rows]

\* The configurations and rows the admin enters in the model.
AdminRowsA ==
  <<AdminRow("team", "SF", 2015, 2023, "none"),
    AdminRow("division", "AFC West", 2015, 2024, "none"),
    AdminRow("conference", "NFC", 1999, 2024, "rb_1000_rush_yards"),
    AdminRow("position", "RB", 2010, 2020, "none"),
    AdminRow("qualifier_only", None, 2015, 2024, "fantasy_top_5_qb")>>

AdminRowsB ==
  <<AdminRow("team", "LV", 1999, 2010, "none"),
    AdminRow("team", "KC", 2015, 2024, "qb_4000_pass_yards"),
    AdminRow("qualifier_only", None, 2015, 2024, "none"),
    AdminRow("conference", "AFC", 2024, 2024, "none"),
    AdminRow("division", "NFC East", 2020, 2005, "any_200_fantasy_pts")>>

AdminConfigs(puzzle_date) ==
  {AdminConfig(puzzle_date, "rushing_yards", AdminRowsA),
   AdminConfig(puzzle_date, "passing_yards", AdminRowsB)}

AdminNewRows ==
  {AdminRow("team", "LAR", 2000, 2010, "none"),
   AdminRow("qualifier_only", None, 2020, 2005, "fantasy_top_10_qb")}

-----------------------------------------------------------------------------
(* The player table (st.session_state.player_db): a Polars DataFrame, one   *)
(* row per player-season.  A row is a record; a numeric cell is             *)
(* [null, v], null for a missing value.                                     *)

NullNum == [null |-> TRUE, v |-> 0]

Num(n) == [null |-> FALSE, v |-> n]

\* df.columns
Columns == {"player", "season", "team", "position", "passing_yards", "fantasy_points"}

PlayerRow(player, season, team, position, passing_yards, fantasy_points) ==
  [player |-> player, season |-> season, team |-> team, position |-> position,
   passing_yards |-> passing_yards, fantasy_points |-> fantasy_points]

\* player_row.get(column) of a numeric column: None when the row has no
\* such key
Get(row, column) ==
  CASE column = "passing_yards" -> row.passing_yards
    [] column = "fantasy_points" -> row.fantasy_points
    [] OTHER -> NullNum

\* str.lower() / str.to_lowercase()
LowerChar(c) ==
  CASE c = "A" -> "a" [] c = "B" -> "b" [] c = "C" -> "c" [] c = "D" -> "d"
    [] c = "E" -> "e" [] c = "F" -> "f" [] c = "G" -> "g" [] c = "H" -> "h"
    [] c = "I" -> "i" [] c = "J" -> "j" [] c = "K" -> "k" [] c = "L" -> "l"
    [] c = "M" -> "m" [] c = "N" -> "n" [] c = "O" -> "o" [] c = "P" -> "p"
    [] c = "Q" -> "q" [] c = "R" -> "r" [] c = "S" -> "s" [] c = "T" -> "t"
    [] c = "U" -> "u" [] c = "V" -> "v" [] c = "W" -> "w" [] c = "X" -> "x"
    [] c = "Y" -> "y" [] c = "Z" -> "z" [] OTHER -> c

RECURSIVE to_lowercase(_)
to_lowercase(s) ==
  IF Len(s) = 0 THEN ""
  ELSE LowerChar(SubSeq(s, 1, 1)) \o to_lowercase(SubSeq(s, 2, Len(s)))

\* str.strip(), for blanks
RECURSIVE strip(_)
strip(s) ==
  IF Len(s) = 0 THEN s
  ELSE IF SubSeq(s, 1, 1) = " " THEN strip(SubSeq(s, 2, Len(s)))
  ELSE IF SubSeq(s, Len(s), Len(s)) = " " THEN strip(SubSeq(s, 1, Len(s) - 1))
  ELSE s

\* `pattern in s`, and str.contains(pattern) for a pattern without regular
\* expression metacharacters
contains(s, pattern) ==
  \E i \in 1..(Len(s) - Len(pattern) + 1) :
    SubSeq(s, i, i + Len(pattern) - 1) = pattern

\* The two things DataFrame.sort(column, descending=True) leaves to the
\* Polars build: the order of rows with equal values (maintain_order is not
\* set) and the place of nulls.
SortModes == [ties : {"keep", "reverse"}, nulls : {"first", "last"}]

\* Row i of rows comes before row j in sort(column, descending=True)
SortsBefore(rows, column, mode, i, j) ==
  LET a == Get(rows[i], column)
      b == Get(rows[j], column)
  IN IF a.null # b.null THEN a.null = (mode.nulls = "first")
     ELSE IF (~a.null) /\ a.v # b.v THEN a.v > b.v
     ELSE IF mode.ties = "keep" THEN i < j ELSE i > j

\* The rows in the order given by place: place[i] is the number of rows
\* that come before row i
Arrange(rows, place) ==
  [k \in 1..Len(rows) |-> rows[CHOOSE i \in 1..Len(rows) : place[i] = k - 1]]

\* rows.sort(column, descending=True)
sort_descending(rows, column, mode) ==
  Arrange(rows,
          [i \in 1..Len(rows) |->
             Cardinality({j \in 1..Len(rows) : SortsBefore(rows, column, mode, j, i)})])

-----------------------------------------------------------------------------
(* src/game/validator.py: qualifiers                                        *)

get_team_variants(team_abbr) ==
  IF team_abbr \in DOMAIN REVERSE_TEAM_MAPPINGS
  THEN REVERSE_TEAM_MAPPINGS[team_abbr]
  ELSE <<team_abbr>>

normalize_team(team_abbr) ==
  IF team_abbr \in DOMAIN TEAM_NAME_MAPPINGS
  THEN TEAM_NAME_MAPPINGS[team_abbr]
  ELSE team_abbr

\* The (bool, str) that the qualifier checks return
Verdict(ok, error) == [ok |-> ok, error |-> error]

\* lines 50-61
Meets(operator, player_value, value) ==
  CASE operator = ">=" -> player_value >= value
    [] operator = ">" -> player_value > value
    [] operator = "<=" -> player_value <= value
    [] operator = "<" -> player_value < value
    [] operator = "==" -> player_value = value
    [] OTHER -> player_value >= value

\* lines 46-66, player_value = player_row.get(column)
threshold_verdict(player_value, qualifier_info) ==
  IF player_value.null
  THEN Verdict(FALSE, "No " \o qualifier_info.column \o " data available")
  ELSE IF ~Meets(qualifier_info.operator, player_value.v, qualifier_info.value)
  THEN Verdict(FALSE, "Does not meet " \o qualifier_info.display \o " requirement ("
                        \o ToString(player_value.v) \o " " \o qualifier_info.column \o ")")
  ELSE Verdict(TRUE, "")

check_threshold_qualifier(player_row, qualifier_info) ==
  threshold_verdict(Get(player_row, qualifier_info.column), qualifier_info)

\* lines 112-119, player_rank the rank found
rank_verdict(player_rank, player_name, qualifier_info, year) ==
  IF qualifier_info.has_max_rank /\ player_rank > qualifier_info.max_rank
  THEN Verdict(FALSE, player_name \o " was #" \o ToString(player_rank) \o " fantasy "
                        \o qualifier_info.position \o " in " \o ToString(year)
                        \o " (need Top " \o ToString(qualifier_info.max_rank) \o ")")
  ELSE IF qualifier_info.has_min_rank /\ player_rank < qualifier_info.min_rank
  THEN Verdict(FALSE, player_name \o " was #" \o ToString(player_rank) \o " fantasy "
                        \o qualifier_info.position \o " in " \o ToString(year)
                        \o " (need outside Top " \o ToString(qualifier_info.min_rank - 1) \o ")")
  ELSE Verdict(TRUE, "")

\* found_verdict that counts the rows from 0
found_verdict_from_zero(ranks, player_name, qualifier_info, year) ==
  IF ranks = {}
  THEN Verdict(FALSE, player_name \o " was not ranked as a "
                        \o qualifier_info.position \o " in " \o ToString(year))
  ELSE rank_verdict((CHOOSE r \in ranks : \A o \in ranks : r <= o) - 1,
                    player_name, qualifier_info, year)

\* lines 101-110: the ranks (1-based places in position_players) of the rows
\* with the player's name; the loop stops at the first
found_verdict(ranks, player_name, qualifier_info, year) ==
  IF ranks = {}
  THEN Verdict(FALSE, player_name \o " was not ranked as a "
                        \o qualifier_info.position \o " in " \o ToString(year))
  ELSE rank_verdict(CHOOSE r \in ranks : \A o \in ranks : r <= o,
                    player_name, qualifier_info, year)

\* lines 98-119
ranked_verdict(position_players, player_name, qualifier_info, year) ==
  IF Len(position_players) = 0
  THEN Verdict(FALSE, "No " \o qualifier_info.position \o " data for " \o ToString(year))
  ELSE found_verdict({i \in 1..Len(position_players) :
                        to_lowercase(position_players[i].player) = to_lowercase(player_name)},
                     player_name, qualifier_info, year)

\* lines 91-96
position_players_of(df, qualifier_info, year, mode) ==
  LET Ranked(row) ==
        /\ row.season = year
        /\ row.position = qualifier_info.position
        /\ ~Get(row, qualifier_info.rank_column).null
        /\ Get(row, qualifier_info.rank_column).v > 0
  IN sort_descending(SelectSeq(df, Ranked), qualifier_info.rank_column, mode)

check_fantasy_rank_qualifier(df, player_row, qualifier_info, year, mode) ==
  ranked_verdict(position_players_of(df, qualifier_info, year, mode),
                 player_row.player, qualifier_info, year)

\* lines 137-145
validate_known_qualifier(df, player_row, qualifier_info, year, mode) ==
  IF qualifier_info.type = "threshold"
  THEN check_threshold_qualifier(player_row, qualifier_info)
  ELSE IF qualifier_info.type = "fantasy_rank"
  THEN check_fantasy_rank_qualifier(df, player_row, qualifier_info, year, mode)
  ELSE Verdict(TRUE, "")

\* validate_qualifier that refuses a key STAT_QUALIFIERS does not have
validate_qualifier_strict(df, player_row, qualifier_key, year, mode) ==
  IF qualifier_key \notin DOMAIN STAT_QUALIFIERS
  THEN Verdict(FALSE, "Unknown qualifier " \o qualifier_key)
  ELSE validate_known_qualifier(df, player_row, STAT_QUALIFIERS[qualifier_key], year, mode)

validate_qualifier(df, player_row, qualifier_key, year, mode) ==
  IF qualifier_key \notin DOMAIN STAT_QUALIFIERS
  THEN Verdict(TRUE, "")
  ELSE validate_known_qualifier(df, player_row, STAT_QUALIFIERS[qualifier_key], year, mode)

-----------------------------------------------------------------------------
(* src/game/validator.py: validate_player_submission                        *)

NoPlayerRow == PlayerRow(None, 0, None, None, NullNum, NullNum)

\* player_data; None is [found |-> FALSE, ...].  player_id, espn_id and
\* headshot_url are columns the table of the model does not have.
NoPlayerData ==
  [found |-> FALSE, player |-> None, season |-> 0, team |-> None,
   position |-> None, stat_value |-> 0, qualifier_value |-> NullNum]

\* The (is_valid, player_data, error_message) of validate_player_submission,
\* with the row the call resolved the name to
Rejected(player_row, error) ==
  [is_valid |-> FALSE, player_data |-> NoPlayerData, error |-> error,
   player_row |-> player_row]

\* lines 246-265
Accepted(player_row, year, stat_value, qualifier_key) ==
  [is_valid |-> TRUE,
   player_data |->
     [found |-> TRUE, player |-> player_row.player, season |-> year,
      team |-> player_row.team, position |-> player_row.position,
      stat_value |-> stat_value,
      qualifier_value |->
        IF Truthy(qualifier_key) /\ qualifier_key \in DOMAIN STAT_QUALIFIERS
           /\ Truthy(STAT_QUALIFIERS[qualifier_key].column)
           /\ STAT_QUALIFIERS[qualifier_key].column \in Columns
        THEN Get(player_row, STAT_QUALIFIERS[qualifier_key].column)
        ELSE NullNum],
   error |-> "",
   player_row |-> player_row]

\* `if criteria.get('year_start')`: None and 0 are both falsy
TruthyYear(y) == y # 0

\* NFL_TEAMS.get(normalized_team, {}).get('division'), None as "None"
division_of(team) ==
  IF normalize_team(team) \in DOMAIN NFL_TEAMS
  THEN NFL_TEAMS[normalize_team(team)].division
  ELSE None

\* lines 240-244, verdict the result of validate_qualifier
qualifier_checked(verdict, player_row, year, stat_value, criteria) ==
  IF ~verdict.ok THEN Rejected(player_row, verdict.error)
  ELSE Accepted(player_row, year, stat_value, criteria.qualifier)

\* check_criteria that checks the qualifier before the other fields
check_criteria_qualifier_first(df, player_row, player_name, year, stat_value, criteria, mode) ==
  IF /\ Truthy(criteria.qualifier)
     /\ ~validate_qualifier(df, player_row, criteria.qualifier, year, mode).ok
  THEN Rejected(player_row,
                validate_qualifier(df, player_row, criteria.qualifier, year, mode).error)
  ELSE IF /\ Truthy(criteria.team)
     /\ player_row.team \notin Range(get_team_variants(criteria.team))
  THEN Rejected(player_row,
                player_name \o " was not on "
                  \o (IF criteria.team \in DOMAIN NFL_TEAMS
                      THEN NFL_TEAMS[criteria.team].name ELSE criteria.team)
                  \o " in " \o ToString(year))
  ELSE IF TruthyYear(criteria.year_start) /\ year < criteria.year_start
  THEN Rejected(player_row, "Year " \o ToString(year) \o " is before "
                              \o ToString(criteria.year_start))
  ELSE IF TruthyYear(criteria.year_end) /\ year > criteria.year_end
  THEN Rejected(player_row, "Year " \o ToString(year) \o " is after "
                              \o ToString(criteria.year_end))
  ELSE IF /\ Truthy(criteria.position)
          /\ player_row.position \notin
               Range(IF criteria.position \in DOMAIN POSITION_GROUPS
                     THEN POSITION_GROUPS[criteria.position]
                     ELSE <<criteria.position>>)
  THEN Rejected(player_row, player_name \o " is not a " \o criteria.position)
  ELSE IF Truthy(criteria.division) /\ division_of(player_row.team) # criteria.division
  THEN Rejected(player_row, player_name \o "'s team was not in " \o criteria.division
                              \o " in " \o ToString(year))
  ELSE IF /\ Truthy(criteria.conference)
          /\ ~contains(IF division_of(player_row.team) = None THEN ""
                       ELSE division_of(player_row.team),
                       criteria.conference)
  THEN Rejected(player_row, player_name \o "'s team was not in " \o criteria.conference
                              \o " in " \o ToString(year))
  ELSE IF Truthy(criteria.qualifier)
  THEN qualifier_checked(validate_qualifier(df, player_row, criteria.qualifier, year, mode),
                         player_row, year, stat_value, criteria)
  ELSE Accepted(player_row, year, stat_value, criteria.qualifier)

\* lines 200-265: the checks of the criteria fields, in the order of the code
check_criteria(df, player_row, player_name, year, stat_value, criteria, mode) ==
  IF /\ Truthy(criteria.team)
     /\ player_row.team \notin Range(get_team_variants(criteria.team))
  THEN Rejected(player_row,
                player_name \o " was not on "
                  \o (IF criteria.team \in DOMAIN NFL_TEAMS
                      THEN NFL_TEAMS[criteria.team].name ELSE criteria.team)
                  \o " in " \o ToString(year))
  ELSE IF TruthyYear(criteria.year_start) /\ year < criteria.year_start
  THEN Rejected(player_row, "Year " \o ToString(year) \o " is before "
                              \o ToString(criteria.year_start))
  ELSE IF TruthyYear(criteria.year_end) /\ year > criteria.year_end
  THEN Rejected(player_row, "Year " \o ToString(year) \o " is after "
                              \o ToString(criteria.year_end))
  ELSE IF /\ Truthy(criteria.position)
          /\ player_row.position \notin
               Range(IF criteria.position \in DOMAIN POSITION_GROUPS
                     THEN POSITION_GROUPS[criteria.position]
                     ELSE <<criteria.position>>)
  THEN Rejected(player_row, player_name \o " is not a " \o criteria.position)
  ELSE IF Truthy(criteria.division) /\ division_of(player_row.team) # criteria.division
  THEN Rejected(player_row, player_name \o "'s team was not in " \o criteria.division
                              \o " in " \o ToString(year))
  ELSE IF /\ Truthy(criteria.conference)
          /\ ~contains(IF division_of(player_row.team) = None THEN ""
                       ELSE division_of(player_row.team),
                       criteria.conference)
  THEN Rejected(player_row, player_name \o "'s team was not in " \o criteria.conference
                              \o " in " \o ToString(year))
  ELSE IF Truthy(criteria.qualifier)
  THEN qualifier_checked(validate_qualifier(df, player_row, criteria.qualifier, year, mode),
                         player_row, year, stat_value, criteria)
  ELSE Accepted(player_row, year, stat_value, criteria.qualifier)

\* check_stat that lets a stat of zero through
check_stat_negative_only(df, player_row, stat_value, player_name, year, stat_category, criteria, mode) ==
  IF stat_value.null
  THEN Rejected(player_row, "No " \o stat_category \o " data for " \o player_name
                              \o " in " \o ToString(year))
  ELSE IF stat_value.v < 0
  THEN Rejected(player_row, player_name \o " has no " \o stat_category
                              \o " in " \o ToString(year))
  ELSE check_criteria(df, player_row, player_name, year, stat_value.v, criteria, mode)

\* lines 192-198, stat_value = player_row.get(stat_category), and on
check_stat(df, player_row, stat_value, player_name, year, stat_category, criteria, mode) ==
  IF stat_value.null
  THEN Rejected(player_row, "No " \o stat_category \o " data for " \o player_name
                              \o " in " \o ToString(year))
  ELSE IF stat_value.v <= 0
  THEN Rejected(player_row, player_name \o " has no " \o stat_category
                              \o " in " \o ToString(year))
  ELSE check_criteria(df, player_row, player_name, year, stat_value.v, criteria, mode)

check_row(df, player_row, player_name, year, stat_category, criteria, mode) ==
  check_stat(df, player_row, Get(player_row, stat_category), player_name, year,
             stat_category, criteria, mode)

\* lines 186-190: player_matches.sort(stat_category, descending=True).row(0)
best_match(player_matches, stat_category, mode) ==
  IF stat_category \in Columns
  THEN sort_descending(player_matches, stat_category, mode)[1]
  ELSE player_matches[1]

\* lines 183-193
resolve_player(df, player_matches, player_name, year, stat_category, criteria, mode) ==
  IF Len(player_matches) = 0
  THEN Rejected(NoPlayerRow, "Player '" \o player_name \o "' not found for year "
                               \o ToString(year))
  ELSE check_row(df, best_match(player_matches, stat_category, mode),
                 player_name, year, stat_category, criteria, mode)

\* lines 171-181: the rows whose lowercased name contains the lowercased
\* input, or else equals it, in the season
find_player(df, player_name_lower, year) ==
  LET Found(row) ==
        contains(to_lowercase(row.player), player_name_lower) /\ row.season = year
      Same(row) ==
        to_lowercase(row.player) = player_name_lower /\ row.season = year
  IN IF Len(SelectSeq(df, Found)) = 0 THEN SelectSeq(df, Same) ELSE SelectSeq(df, Found)

\* validate_player_submission(df, player_name, year, stat_category, criteria)
validate_player_submission(df, player_name, year, stat_category, criteria, mode) ==
  resolve_player(df, find_player(df, to_lowercase(strip(player_name)), year),
                 strip(player_name), year, stat_category, criteria, mode)

-----------------------------------------------------------------------------
(* src/game/validator.py: get_all_valid_players                             *)

\* lines 452-453 and 457-458
teams_in_div(division) ==
  {t \in DOMAIN NFL_TEAMS : NFL_TEAMS[t].division = division}

teams_in_conf(conference) ==
  {t \in DOMAIN NFL_TEAMS : contains(NFL_TEAMS[t].division, conference)}

\* lines 429-459: the filters on the stat column and the criteria fields
passes_filters(row, stat_category, criteria) ==
  /\ ~Get(row, stat_category).null
  /\ Get(row, stat_category).v > 0
  /\ TruthyYear(criteria.year_start) => row.season >= criteria.year_start
  /\ TruthyYear(criteria.year_end) => row.season <= criteria.year_end
  /\ Truthy(criteria.team) => row.team = criteria.team
  /\ Truthy(criteria.position) =>
       row.position \in Range(IF criteria.position \in DOMAIN POSITION_GROUPS
                              THEN POSITION_GROUPS[criteria.position]
                              ELSE <<criteria.position>>)
  /\ Truthy(criteria.division) => row.team \in teams_in_div(criteria.division)
  /\ Truthy(criteria.conference) => row.team \in teams_in_conf(criteria.conference)

\* filter_rows that keeps no row of a name the table has twice
filter_rows_unique_names(df, stat_category, criteria) ==
  LET Passes(row) ==
        /\ passes_filters(row, stat_category, criteria)
        /\ Cardinality({i \in 1..Len(df) : df[i].player = row.player}) = 1
  IN SelectSeq(df, Passes)

\* filter_rows that leaves the team filter out
filter_rows_any_team(df, stat_category, criteria) ==
  LET Passes(row) == passes_filters(row, stat_category, [criteria EXCEPT !.team = None])
  IN SelectSeq(df, Passes)

filter_rows(df, stat_category, criteria) ==
  LET Passes(row) == passes_filters(row, stat_category, criteria)
  IN SelectSeq(df, Passes)

\* lines 461-472: result is the filtered table, df the whole table
filter_qualifier(df, result, criteria, mode) ==
  LET Valid(row) == validate_qualifier(df, row, criteria.qualifier, row.season, mode).ok
  IN IF Truthy(criteria.qualifier) THEN SelectSeq(result, Valid) ELSE result

\* get_all_valid_players(df, stat_category, criteria): the rows of the
\* result, << >> for an empty DataFrame
get_all_valid_players(df, stat_category, criteria, mode) ==
  IF stat_category \notin Columns THEN << >>
  ELSE sort_descending(
         filter_qualifier(df, filter_rows(df, stat_category, criteria), criteria, mode),
         stat_category, mode)

-----------------------------------------------------------------------------
(* src/game/validator.py: find_player_best_year                             *)

\* lines 275-316: the name filter, the criteria filters and the stat filter
best_year_filters(row, player_name, stat_category, criteria) ==
  /\ contains(to_lowercase(row.player), to_lowercase(player_name))
  /\ TruthyYear(criteria.year_start) => row.season >= criteria.year_start
  /\ TruthyYear(criteria.year_end) => row.season <= criteria.year_end
  /\ Truthy(criteria.team) => row.team \in Range(get_team_variants(criteria.team))
  /\ Truthy(criteria.position) =>
       row.position \in Range(IF criteria.position \in DOMAIN POSITION_GROUPS
                              THEN POSITION_GROUPS[criteria.position]
                              ELSE <<criteria.position>>)
  /\ Truthy(criteria.division) => row.team \in teams_in_div(criteria.division)
  /\ Truthy(criteria.conference) => row.team \in teams_in_conf(criteria.conference)
  /\ ~Get(row, stat_category).null
  /\ Get(row, stat_category).v > 0

best_year_matches(df, player_name, stat_category, criteria) ==
  LET Passes(row) == best_year_filters(row, player_name, stat_category, criteria)
  IN SelectSeq(df, Passes)

\* lines 322-325: the rows that pass the qualifier in their own season
best_year_valid_rows(df, player_matches, criteria, mode) ==
  LET Valid(row) == validate_qualifier(df, row, criteria.qualifier, row.season, mode).ok
  IN SelectSeq(player_matches, Valid)

\* lines 331-332: valid_rows.sort(key=..., reverse=True) is stable, so
\* valid_rows[0] is the first of the rows with the greatest value
first_of_greatest(valid_rows, stat_category) ==
  valid_rows[CHOOSE i \in 1..Len(valid_rows) :
               /\ \A j \in 1..Len(valid_rows) :
                    Get(valid_rows[j], stat_category).v <= Get(valid_rows[i], stat_category).v
               /\ \A j \in 1..(i - 1) :
                    Get(valid_rows[j], stat_category).v < Get(valid_rows[i], stat_category).v]

\* lines 337-346: the returned dict (it has no qualifier_value); None is
\* NoPlayerData
BestYear(best_row, stat_category) ==
  [found |-> TRUE, player |-> best_row.player, season |-> best_row.season,
   team |-> best_row.team, position |-> best_row.position,
   stat_value |-> Get(best_row, stat_category).v, qualifier_value |-> NullNum]

\* lines 319-335
best_year_of(df, player_matches, stat_category, criteria, mode) ==
  IF Len(player_matches) = 0 THEN NoPlayerData
  ELSE IF Truthy(criteria.qualifier)
  THEN IF Len(best_year_valid_rows(df, player_matches, criteria, mode)) = 0
       THEN NoPlayerData
       ELSE BestYear(first_of_greatest(
                       best_year_valid_rows(df, player_matches, criteria, mode),
                       stat_category),
                     stat_category)
  ELSE BestYear(sort_descending(player_matches, stat_category, mode)[1], stat_category)

\* find_player_best_year(df, player_name, stat_category, criteria)
find_player_best_year(df, player_name, stat_category, criteria, mode) ==
  IF stat_category \notin Columns THEN NoPlayerData
  ELSE best_year_of(df, best_year_matches(df, player_name, stat_category, criteria),
                    stat_category, criteria, mode)

-----------------------------------------------------------------------------
(* src/game/scorer.py.  A percentile is kept in tenths of a point: 1000 is  *)
(* 100, 999 is 99.9.                                                        *)

\* round(n / d * 10) to the nearest integer, halves to the even one: what
\* round((rank / len(all_values)) * 100, 1) gives in tenths when n is
\* 100 * rank and d is the number of values, for fewer than 80 values
\* (from 80 on the floating-point quotient can fall on the other side of a
\* half), and whenever the quotient is not within 1e-9 of a half.
RoundTenths(n, d) ==
  LET q == (10 * n) \div d
      r == (10 * n) % d
  IN IF 2 * r > d \/ (2 * r = d /\ q % 2 = 1) THEN q + 1 ELSE q

\* CountLeq that counts the values strictly below
CountLess(all_values, stat_value) ==
  Cardinality({i \in 1..Len(all_values) : all_values[i] < stat_value})

\* (all_values <= stat_value).sum() and (all_values > stat_value).sum()
CountLeq(all_values, stat_value) ==
  Cardinality({i \in 1..Len(all_values) : all_values[i] <= stat_value})

\* CountGreater that also counts the values equal to stat_value
CountGreaterOrEqual(all_values, stat_value) ==
  Cardinality({i \in 1..Len(all_values) : all_values[i] >= stat_value})

CountGreater(all_values, stat_value) ==
  Cardinality({i \in 1..Len(all_values) : all_values[i] > stat_value})

calculate_percentile(stat_value, all_values) ==
  IF Len(all_values) = 0 THEN 0
  ELSE RoundTenths(100 * CountLeq(all_values, stat_value), Len(all_values))

\* get_tier with strict comparisons
get_tier_strict(percentile) ==
  IF percentile > TIER_THRESHOLDS["diamond"] THEN "diamond"
  ELSE IF percentile > TIER_THRESHOLDS["gold"] THEN "gold"
  ELSE IF percentile > TIER_THRESHOLDS["silver"] THEN "silver"
  ELSE IF percentile > TIER_THRESHOLDS["bronze"] THEN "bronze"
  ELSE "iron"

get_tier(percentile) ==
  IF percentile >= TIER_THRESHOLDS["diamond"] THEN "diamond"
  ELSE IF percentile >= TIER_THRESHOLDS["gold"] THEN "gold"
  ELSE IF percentile >= TIER_THRESHOLDS["silver"] THEN "silver"
  ELSE IF percentile >= TIER_THRESHOLDS["bronze"] THEN "bronze"
  ELSE "iron"

\* The dict score_submission returns (tier_color and tier_emoji are
\* functions of the tier), with valid_players, the pool the call ranked
\* the submission in
ScoreData(score, percentile, tier, rank, total_valid) ==
  [scored |-> TRUE, score |-> score, percentile |-> percentile, tier |-> tier,
   rank |-> rank, total_valid |-> total_valid, valid_players |-> << >>]

NoScore == [ScoreData(0, 0, None, 0, 0) EXCEPT !.scored = FALSE]

\* lines 106-124
score_percentile(stat_value, all_values, percentile) ==
  ScoreData(stat_value, percentile, get_tier(percentile),
            CountGreater(all_values, stat_value) + 1, Len(all_values))

\* score_against that ranks an empty pool like any other
score_against_unguarded(stat_value, all_values) ==
  score_percentile(stat_value, all_values, calculate_percentile(stat_value, all_values))

\* lines 95-124, all_values = valid_players[stat_category]
score_against(stat_value, all_values) ==
  IF Len(all_values) = 0
  THEN ScoreData(stat_value, 1000, "diamond", 1, 1)
  ELSE score_percentile(stat_value, all_values,
                        calculate_percentile(stat_value, all_values))

\* lines 93-124, valid_players the result of get_all_valid_players
score_valid_players(stat_value, valid_players, stat_category) ==
  [score_against(stat_value,
                 [i \in 1..Len(valid_players) |->
                    Get(valid_players[i], stat_category).v])
     EXCEPT !.valid_players = valid_players]

score_submission(df, player_data, stat_category, criteria, mode) ==
  score_valid_players(player_data.stat_value,
                      get_all_valid_players(df, stat_category, criteria, mode),
                      stat_category)

\* calculate_total_score that adds up the percentiles
RECURSIVE calculate_total_percentile(_)
calculate_total_percentile(submissions) ==
  IF Len(submissions) = 0 THEN 0
  ELSE (IF submissions[1].scored THEN submissions[1].percentile ELSE 0)
         + calculate_total_percentile(Tail(submissions))

\* sum(s.get('score', 0) for s in submissions if s)
RECURSIVE calculate_total_score(_)
calculate_total_score(submissions) ==
  IF Len(submissions) = 0 THEN 0
  ELSE (IF submissions[1].scored THEN submissions[1].score ELSE 0)
         + calculate_total_score(Tail(submissions))

-----------------------------------------------------------------------------
(* src/app.py: the session and submit_player.  A row_index is 0-based as in *)
(* the code; sequences are 1-based.                                         *)

\* init_session_state, with the puzzle get_daily_puzzle returned
init_session_state(puzzle) ==
  [puzzle |-> puzzle,
   submissions |-> [i \in 1..5 |-> NoPlayerData],
   scores |-> [i \in 1..5 |-> NoScore],
   easy_mode |-> FALSE,
   total_guesses |-> 0]

NoSession == init_session_state(NoPuzzle)

\* What a call of submit_player leaves: the session, and what the
\* validation said (the error st.error shows)
SubmitResult(ss, validation) == [session_state |-> ss, validation |-> validation]

\* lines 1566-1571
submit_validated(ss, df, row_index, validation, stat_category, criteria, mode) ==
  IF ~validation.is_valid THEN SubmitResult(ss, validation)
  ELSE SubmitResult([ss EXCEPT
                     !.submissions[row_index + 1] = validation.player_data,
                     !.scores[row_index + 1] =
                       score_submission(df, validation.player_data, stat_category,
                                        criteria, mode)],
                  validation)

\* lines 1557-1564
submit_year(ss, df, row_index, player_name, year, stat_category, criteria, mode) ==
  submit_validated(ss, df, row_index,
                   validate_player_submission(df, player_name, year, stat_category,
                                              criteria, mode),
                   stat_category, criteria, mode)

\* lines 1549-1555, best_year_data the result of find_player_best_year
submit_easy(ss, df, row_index, player_name, best_year_data, stat_category, criteria, mode) ==
  IF best_year_data.found
  THEN submit_year(ss, df, row_index, player_name, best_year_data.season,
                   stat_category, criteria, mode)
  ELSE SubmitResult(ss, Rejected(NoPlayerRow, "Could not find " \o player_name
                                              \o " matching the criteria"))

\* lines 1540-1555, ss the session with the guess counted; year 0 is None
submit_counted(ss, df, row_index, player_name, year, stat_category, criteria, mode) ==
  IF ss.easy_mode \/ year = 0
  THEN submit_easy(ss, df, row_index, player_name,
                   find_player_best_year(df, player_name, stat_category, criteria, mode),
                   stat_category, criteria, mode)
  ELSE submit_year(ss, df, row_index, player_name, year, stat_category, criteria, mode)

\* submit_player(row_index, player_name, year) on session ss and table df
submit_player(ss, df, row_index, player_name, year, mode) ==
  IF player_name = "" THEN SubmitResult(ss, Rejected(NoPlayerRow, "Please enter a player name"))
  ELSE submit_counted([ss EXCEPT !.total_guesses = @ + 1], df, row_index, player_name,
                      year, ss.puzzle.stat_category, ss.puzzle.rows[row_index + 1], mode)

-----------------------------------------------------------------------------
(* Bounds                                                                   *)

NumProcs == 2
MaxWrites == 2
MaxRows == 2
MaxPercentile == 1000
MaxGuesses == 3
MaxPool == 2001

Procs == 1..NumProcs

\* The dates the store is used with
StoreDates == {MkDate(2025, 1, 11), MkDate(2025, 11, 1)}

RowIndexes == {-1, 0, 2, 4, 5}

-----------------------------------------------------------------------------
(* The tables, puzzles rows and submissions of the model                    *)

\* k quarterbacks of the 2024 season, from the best down
Passers(k) ==
  [i \in 1..k |->
     PlayerRow("Passer " \o ToString(i), 2024, "DAL", "QB",
               Num(4500 - 50 * (i - 1)), Num(400 - 10 * (i - 1)))]

PasserCounts == {0, 5, 10}

\* The other rows a table is made of
Candidates ==
  <<PlayerRow("Josh Allen", 2024, "BUF", "QB", Num(3700), Num(300)),
    PlayerRow("Josh Allen", 2024, "JAX", "LB", NullNum, Num(40)),
    PlayerRow("Derek Carr", 2023, "OAK", "QB", Num(4100), Num(250)),
    PlayerRow("Lamar Jackson", 2024, "BAL", "QB", Num(3700), Num(300)),
    PlayerRow("Kyle Juszczyk", 2024, "SF", "FB", Num(0), Num(60))>>

\* The ways to pick n candidates, in the order of Candidates (SortModes
\* gives rows with equal values both orders)
Picks(n) ==
  {pick \in [1..n -> 1..Len(Candidates)] :
     \A i \in 1..n : \A j \in 1..n : i < j => pick[i] < pick[j]}

\* A table: the passers, then up to MaxRows candidates
Tables ==
  {Passers(k) \o [i \in DOMAIN pick |-> Candidates[pick[i]]] :
     k \in PasserCounts, pick \in UNION {Picks(n) : n \in 0..MaxRows}}

\* A stat category with the criteria of a puzzle row
Query(stat_category, criteria) ==
  [stat_category |-> stat_category, criteria |-> criteria]

Queries ==
  {Query("passing_yards", AdminRow("qualifier_only", None, 1999, 2024, "none")),
   Query("passing_yards", AdminRow("team", "LV", 2015, 2024, "none")),
   Query("passing_yards", AdminRow("position", "RB", 2024, 2024, "none")),
   Query("passing_yards", AdminRow("division", "AFC East", 2015, 2024, "none")),
   Query("passing_yards", AdminRow("division", "AFC West", 2015, 2024, "none")),
   Query("passing_yards", AdminRow("conference", "AFC", 2024, 2024, "none")),
   Query("passing_yards", AdminRow("qualifier_only", None, 2015, 2024, "fantasy_top_5_qb")),
   Query("passing_yards", AdminRow("team", "BUF", 2015, 2024, "fantasy_top_5_qb")),
   Query("passing_yards",
         AdminRow("qualifier_only", None, 2015, 2024, "fantasy_outside_top_10_qb")),
   Query("passing_yards", AdminRow("qualifier_only", None, 2015, 2024, "qb_4000_pass_yards")),
   Query("passing_yards",
         [AdminRow("qualifier_only", None, 2015, 2024, "none")
            EXCEPT !.qualifier = "retired_qualifier"]),
   Query("rushing_yards", AdminRow("qualifier_only", None, 1999, 2024, "none"))}

\* Criteria with several populated fields, which a record can fail at once
OrderQueries ==
  {Query("passing_yards",
         [AdminRow("team", "BUF", 2024, 2024, "qb_4000_pass_yards") EXCEPT !.position = "RB"]),
   Query("passing_yards",
         [AdminRow("team", "LV", 2024, 2024, "none") EXCEPT !.conference = "NFC"]),
   Query("passing_yards",
         [AdminRow("division", "AFC East", 2015, 2023, "qb_4000_pass_yards")
            EXCEPT !.conference = "NFC"]),
   Query("passing_yards", AdminRow("conference", "NFC", 2015, 2024, "qb_4000_pass_yards")),
   Query("passing_yards", AdminRow("team", "BUF", 2015, 2024, "fantasy_top_5_qb")),
   Query("passing_yards",
         [AdminRow("division", "AFC West", 2015, 2024, "qb_4000_pass_yards")
            EXCEPT !.team = "LV", !.position = "QB", !.conference = "AFC"])}

\* The stat column of a pool of n records, `greater` of them above
\* stat_value and the others at or below it
PoolOf(n, greater, stat_value) ==
  [i \in 1..n |-> IF i <= greater THEN stat_value + i ELSE stat_value - (i % 2)]

PoolSizes == (1..25) \cup {MaxPool - 1, MaxPool}

\* The player name and the year of a submission
Submitted(player_name, year) == [player_name |-> player_name, year |-> year]

Submissions ==
  {Submitted("Josh Allen", 2024), Submitted(" derek carr ", 2023),
   Submitted("Jackson", 2024), Submitted("juszczyk", 2024)}

\* The stat values of the submissions that are scored
ScoreValues == {10, 3700, 4500}

QualifierChecks ==
  {"fantasy_top_5_qb", "fantasy_outside_top_10_qb", "qb_4000_pass_yards",
   "retired_qualifier"}

\* The session: the puzzle of the day, the tables and what is submitted
SessionPuzzle ==
  AdminConfig(MkDate(2025, 1, 11), "passing_yards",
              <<AdminRow("qualifier_only", None, 1999, 2024, "none"),
                AdminRow("team", "LV", 2015, 2024, "none"),
                AdminRow("division", "AFC East", 2015, 2024, "none"),
                AdminRow("qualifier_only", None, 2015, 2024, "fantasy_top_5_qb"),
                AdminRow("team", "BUF", 2015, 2024, "qb_4000_pass_yards")>>)

SessionTables == {Passers(5) \o SubSeq(Candidates, 1, 3)}

SessionSubmissions ==
  {Submitted("Josh Allen", 2024), Submitted("Derek Carr", 2023),
   Submitted("Tom Brady", 2024)}

\* The names typed in Easy Mode
EasyNames == {"josh allen", "Carr", "a"}

-----------------------------------------------------------------------------
(* Calls of generate_puzzle by concurrent processes                         *)

IdleFrame == [NewFrame(MkDate(0, 0, 0)) EXCEPT !.pc = "idle"]

\* One generator for the whole module (random.seed(seed) and the functions
\* of the random module) in place of a generator per call.
RngSlotShared(p) == 1

\* rng = random.Random(seed): the generator is a local of the call
RngSlot(p) == p

Call(p, d) ==
  /\ gen[p].pc = "idle"
  /\ gen' = [gen EXCEPT ![p] = NewFrame(d)]
  /\ UNCHANGED <<rngs, seen>>
  /\ UNCHANGED <<storeVars, gameVars>>

Stepped(p, n) ==
  /\ gen' = [gen EXCEPT ![p] = n.frame]
  /\ rngs' = [rngs EXCEPT ![RngSlot(p)] = n.rng]

Step(p) ==
  /\ gen[p].pc \notin {"idle", "done"}
  /\ Stepped(p, GenStep(gen[p], rngs[RngSlot(p)]))
  /\ UNCHANGED seen
  /\ UNCHANGED <<storeVars, gameVars>>

Return(p) ==
  /\ gen[p].pc = "done"
  /\ seen' = [seen EXCEPT ![gen[p].date] =
                IF @ = NoPuzzle THEN gen[p].puzzle ELSE @]
  /\ gen' = [gen EXCEPT ![p] = IdleFrame]
  /\ rngs' = [rngs EXCEPT ![RngSlot(p)] = 0]     \* the local generator is gone
  /\ UNCHANGED <<storeVars, gameVars>>

-----------------------------------------------------------------------------
(* Operations on the override store, one at a time                          *)

NoOp ==
  [op |-> "none", date |-> MkDate(0, 0, 0), row_index |-> 0, config |-> NoPuzzle,
   row |-> EmptyCriteria, had_override |-> FALSE, ret |-> NoPuzzle,
   load_failed |-> FALSE, raised |-> FALSE]

\* A process that is in neither save_override nor update_puzzle_row.
\* loaded is the dict load_overrides returned, overrides the same dict after
\* line 285
IdleWriter ==
  [pc |-> "idle", op |-> "none", date |-> MkDate(0, 0, 0), row_index |-> 0,
   row |-> EmptyCriteria, puzzle |-> NoPuzzle,
   loaded |-> [k \in {} |-> NoPuzzle], overrides |-> [k \in {} |-> NoPuzzle]]

SaveOverride(d, cfg) ==
  /\ writes < MaxWrites
  /\ file' = save_override(d, cfg)
  /\ writes' = writes + 1
  /\ saved' = [saved EXCEPT ![d] = cfg]
  /\ last' = [NoOp EXCEPT !.op = "save_override", !.date = d, !.config = cfg,
                          !.load_failed = load_fails]
  /\ UNCHANGED <<genVars, gameVars, writers>>

UpdatePuzzleRow(d, i, new_criteria) ==
  /\ writes < MaxWrites
  /\ LET puzzle == update_puzzle_row(d, i, new_criteria) IN
       /\ file' = save_override(d, puzzle)
       /\ saved' = [saved EXCEPT ![d] = puzzle]
       /\ last' = [NoOp EXCEPT !.op = "update_puzzle_row", !.date = d,
                               !.row_index = i, !.row = new_criteria,
                               !.had_override = IsSet(get_override(d)),
                               !.ret = puzzle,
                               !.load_failed = load_fails]
  /\ writes' = writes + 1
  /\ UNCHANGED <<genVars, gameVars, writers>>

DeleteOverride(date_str) ==
  /\ writes < MaxWrites
  /\ date_str \in DOMAIN load_overrides
  /\ file' = delete_override(date_str)
  /\ writes' = writes + 1
  /\ saved' = [d \in StoreDates |->
                IF isoformat(d) = date_str THEN NoPuzzle ELSE saved[d]]
  /\ last' = [NoOp EXCEPT !.op = "delete", !.config.date = date_str]
  /\ UNCHANGED <<genVars, gameVars, writers>>

\* The override file becomes one json.load cannot parse: cut short by a
\* process that died inside json.dump (open(..., 'w') empties the file
\* first), or edited by hand
DamageFile ==
  /\ file.exists
  /\ file.parseable
  /\ file' = [file EXCEPT !.parseable = FALSE]
  /\ last' = [NoOp EXCEPT !.op = "damage"]
  /\ UNCHANGED <<writes, saved>>
  /\ UNCHANGED <<genVars, gameVars, writers>>

GetDailyPuzzle(today) ==
  /\ last' = [NoOp EXCEPT !.op = "get_daily_puzzle", !.date = today,
                          !.had_override = IsSet(get_override(today)),
                          !.load_failed = load_fails,
                          !.ret = get_daily_puzzle(today)]
  /\ UNCHANGED <<file, writes, saved>>
  /\ UNCHANGED <<genVars, gameVars, writers>>

GetCurrentPuzzleForEditing(d) ==
  /\ last' = [NoOp EXCEPT !.op = "get_current_puzzle_for_editing", !.date = d,
                          !.had_override = IsSet(get_override(d)),
                          !.load_failed = load_fails,
                          !.ret = get_current_puzzle_for_editing(d)]
  /\ UNCHANGED <<file, writes, saved>>
  /\ UNCHANGED <<genVars, gameVars, writers>>

-----------------------------------------------------------------------------
(* Writers that run side by side (one Streamlit session each).  Nothing     *)
(* locks the override file: a writer reads the whole file, changes its own  *)
(* copy, and writes the whole file; other writers run in between.  The      *)
(* write (open, json.dump, close) is one step.                              *)

\* Process p calls save_override(d, cfg)
CallSaveOverride(p, d, cfg) ==
  /\ writers[p].pc = "idle"
  /\ writes + Cardinality({q \in Procs : writers[q].pc # "idle"}) < MaxWrites
  /\ writers' = [writers EXCEPT ![p] =
                   [IdleWriter EXCEPT !.pc = "load", !.op = "save_override",
                                      !.date = d, !.puzzle = cfg]]
  /\ UNCHANGED <<file, writes, saved, last>>
  /\ UNCHANGED <<genVars, gameVars>>

\* Process p calls update_puzzle_row(d, i, new_criteria)
CallUpdatePuzzleRow(p, d, i, new_criteria) ==
  /\ writers[p].pc = "idle"
  /\ writes + Cardinality({q \in Procs : writers[q].pc # "idle"}) < MaxWrites
  /\ writers' = [writers EXCEPT ![p] =
                   [IdleWriter EXCEPT !.pc = "existing", !.op = "update_puzzle_row",
                                      !.date = d, !.row_index = i,
                                      !.row = new_criteria]]
  /\ UNCHANGED <<file, writes, saved, last>>
  /\ UNCHANGED <<genVars, gameVars>>

\* update_puzzle_row, lines 323-332: get_override reads the file, and the
\* row is replaced in the copy; save_override is called next
ReadExisting(p) ==
  /\ writers[p].pc = "existing"
  /\ writers' = [writers EXCEPT ![p].pc = "load",
                                ![p].puzzle = update_puzzle_row(writers[p].date,
                                                writers[p].row_index, writers[p].row)]
  /\ UNCHANGED <<file, writes, saved, last>>
  /\ UNCHANGED <<genVars, gameVars>>

\* save_override, lines 284-285: load_overrides reads the whole file and
\* the entry of the date is set in the dict
LoadOverrides(p) ==
  /\ writers[p].pc = "load"
  /\ writers' = [writers EXCEPT ![p].pc = "write",
                                ![p].loaded = load_overrides,
                                ![p].overrides = assign_override(load_overrides,
                                                   writers[p].date, writers[p].puzzle)]
  /\ UNCHANGED <<file, writes, saved, last>>
  /\ UNCHANGED <<genVars, gameVars>>

\* save_override, lines 286-287: the dict replaces the file, and the call
\* returns
WriteOverrides(p) ==
  /\ writers[p].pc = "write"
  /\ file' = dump_overrides(writers[p].overrides)
  /\ writes' = writes + 1
  /\ saved' = [saved EXCEPT ![writers[p].date] = writers[p].puzzle]
  /\ last' = [NoOp EXCEPT !.op = writers[p].op, !.date = writers[p].date,
                          !.row_index = writers[p].row_index,
                          !.row = writers[p].row,
                          !.config = writers[p].puzzle,
                          !.ret = IF writers[p].op = "update_puzzle_row"
                                  THEN writers[p].puzzle ELSE NoPuzzle]
  /\ writers' = [writers EXCEPT ![p] = IdleWriter]
  /\ UNCHANGED <<genVars, gameVars>>

-----------------------------------------------------------------------------
(* Calls of the validator and the scorer on the player table.  No call      *)
(* changes the table, so every call is taken on the table as loaded.        *)

NoResult ==
  [op |-> "none", stat_category |-> None, criteria |-> EmptyCriteria,
   player_name |-> None, year |-> 0, player_row |-> NoPlayerRow,
   validation |-> Rejected(NoPlayerRow, ""), verdict |-> Verdict(FALSE, ""),
   player_data |-> NoPlayerData, valid_players |-> << >>, score |-> NoScore,
   percentile |-> 0, tier |-> None, row_index |-> 0, all_values |-> << >>]

ValidatePlayerSubmission(player_name, year, q, mode) ==
  /\ res.op = "none"
  /\ res' = [NoResult EXCEPT
               !.op = "validate_player_submission",
               !.stat_category = q.stat_category,
               !.criteria = q.criteria,
               !.player_name = player_name,
               !.year = year,
               !.validation = validate_player_submission(player_db, player_name, year,
                                                         q.stat_category, q.criteria, mode)]
  /\ UNCHANGED <<player_db, session_state>>
  /\ UNCHANGED <<genVars, storeVars>>

ValidateQualifier(i, qualifier_key, mode) ==
  /\ res.op = "none"
  /\ i \in 1..Len(player_db)
  /\ res' = [NoResult EXCEPT
               !.op = "validate_qualifier",
               !.criteria.qualifier = qualifier_key,
               !.player_row = player_db[i],
               !.year = player_db[i].season,
               !.verdict = validate_qualifier(player_db, player_db[i], qualifier_key, player_db[i].season, mode)]
  /\ UNCHANGED <<player_db, session_state>>
  /\ UNCHANGED <<genVars, storeVars>>

GetAllValidPlayers(q, mode) ==
  /\ res.op = "none"
  /\ res' = [NoResult EXCEPT
               !.op = "get_all_valid_players",
               !.stat_category = q.stat_category,
               !.criteria = q.criteria,
               !.valid_players = get_all_valid_players(player_db, q.stat_category,
                                                       q.criteria, mode)]
  /\ UNCHANGED <<player_db, session_state>>
  /\ UNCHANGED <<genVars, storeVars>>

ScoreSubmission(player_data, q, mode) ==
  /\ res.op = "none"
  /\ res' = [NoResult EXCEPT
               !.op = "score_submission",
               !.stat_category = q.stat_category,
               !.criteria = q.criteria,
               !.player_data = player_data,
               !.score = score_submission(player_db, player_data, q.stat_category,
                                          q.criteria, mode)]
  /\ UNCHANGED <<player_db, session_state>>
  /\ UNCHANGED <<genVars, storeVars>>

\* score_submission from line 95 on, for a pool given by its stat column
ScoreAgainst(stat_value, all_values) ==
  /\ res.op = "none"
  /\ res' = [NoResult EXCEPT
               !.op = "score_against",
               !.player_data.stat_value = stat_value,
               !.all_values = all_values,
               !.score = score_against(stat_value, all_values)]
  /\ UNCHANGED <<player_db, session_state>>
  /\ UNCHANGED <<genVars, storeVars>>

FindPlayerBestYear(player_name, q, mode) ==
  /\ res.op = "none"
  /\ res' = [NoResult EXCEPT
               !.op = "find_player_best_year",
               !.stat_category = q.stat_category,
               !.criteria = q.criteria,
               !.player_name = player_name,
               !.player_data = find_player_best_year(player_db, player_name,
                                                     q.stat_category, q.criteria, mode)]
  /\ UNCHANGED <<player_db, session_state>>
  /\ UNCHANGED <<genVars, storeVars>>

\* A click on Submit in the dialog of a row.  render_game_row (app.py
\* 1128-1141) shows the input of a row only while the row has no
\* submission, and the dialog passes a player picked from its list.
SubmitPlayer(row_index, player_name, year, mode) ==
  /\ session_state.total_guesses < MaxGuesses
  /\ ~session_state.submissions[row_index + 1].found
  /\ LET done == submit_player(session_state, player_db, row_index, player_name,
                               IF session_state.easy_mode THEN 0 ELSE year, mode)
     IN /\ session_state' = done.session_state
        /\ res' = [NoResult EXCEPT !.op = "submit_player",
                                   !.row_index = row_index,
                                   !.player_name = player_name,
                                   !.year = IF session_state.easy_mode THEN 0 ELSE year,
                                   !.validation = done.validation]
  /\ UNCHANGED player_db
  /\ UNCHANGED <<genVars, storeVars>>

\* render_easy_mode_toggle
ToggleEasyMode ==
  /\ session_state' = [session_state EXCEPT !.easy_mode = ~@]
  /\ res' = [NoResult EXCEPT !.op = "toggle_easy_mode"]
  /\ UNCHANGED player_db
  /\ UNCHANGED <<genVars, storeVars>>

GetTier(percentile) ==
  /\ res' = [NoResult EXCEPT !.op = "get_tier", !.percentile = percentile,
                             !.tier = get_tier(percentile)]
  /\ UNCHANGED <<player_db, session_state>>
  /\ UNCHANGED <<genVars, storeVars>>

-----------------------------------------------------------------------------
(* Specifications                                                           *)

\* No call of generate_puzzle is running and there is no override file
InitPuzzles ==
  /\ gen = [p \in Procs |-> IdleFrame]
  /\ rngs = [k \in Procs |-> 0]
  /\ seen = [d \in Dates |-> NoPuzzle]
  /\ file = NoFile
  /\ writes = 0
  /\ saved = [d \in StoreDates |-> NoPuzzle]
  /\ last = NoOp
  /\ writers = [p \in Procs |-> IdleWriter]

Init ==
  /\ InitPuzzles
  /\ player_db = << >>
  /\ res = NoResult
  /\ session_state = NoSession

\* The player database is loaded
InitGame ==
  /\ InitPuzzles
  /\ player_db \in Tables
  /\ res = NoResult
  /\ session_state = NoSession

\* A session has started (init_session_state): the puzzle of the day and
\* the player database are loaded, no row has a submission
InitSession ==
  /\ InitPuzzles
  /\ player_db \in SessionTables
  /\ res = NoResult
  /\ session_state = init_session_state(SessionPuzzle)

NextGen ==
  \E p \in Procs :
    \/ \E d \in Dates : Call(p, d)
    \/ Step(p)
    \/ Return(p)

NextStore ==
  \/ \E d \in StoreDates : \E cfg \in AdminConfigs(d) : SaveOverride(d, cfg)
  \/ \E d \in StoreDates : \E i \in RowIndexes : \E new_criteria \in AdminNewRows :
       UpdatePuzzleRow(d, i, new_criteria)
  \/ \E d \in StoreDates : DeleteOverride(isoformat(d))
  \/ \E today \in StoreDates : GetDailyPuzzle(today)
  \/ \E d \in StoreDates : GetCurrentPuzzleForEditing(d)

NextStoreFaults ==
  \/ NextStore
  \/ DamageFile

NextWriters ==
  \E p \in Procs :
    \/ \E d \in StoreDates : \E cfg \in AdminConfigs(d) : CallSaveOverride(p, d, cfg)
    \/ \E d \in StoreDates : CallUpdatePuzzleRow(p, d, 0, AdminRowsB[1])
    \/ ReadExisting(p)
    \/ LoadOverrides(p)
    \/ WriteOverrides(p)

NextGame ==
  \E mode \in SortModes :
    \/ \E s \in Submissions : \E q \in Queries :
         ValidatePlayerSubmission(s.player_name, s.year, q, mode)
    \/ \E i \in 1..(Max(PasserCounts) + MaxRows) : \E qualifier_key \in QualifierChecks :
         ValidateQualifier(i, qualifier_key, mode)
    \/ \E q \in Queries : GetAllValidPlayers(q, mode)
    \/ \E player_name \in EasyNames : \E q \in Queries :
         FindPlayerBestYear(player_name, q, mode)
    \/ \E v \in ScoreValues : \E q \in Queries :
         ScoreSubmission([NoPlayerData EXCEPT !.found = TRUE, !.stat_value = v], q, mode)

NextCriteria ==
  \E s \in Submissions : \E q \in OrderQueries : \E mode \in SortModes :
    ValidatePlayerSubmission(s.player_name, s.year, q, mode)

NextPuzzles ==
  \/ \E d \in PuzzleDates : Call(1, d)
  \/ Step(1)

NextRank ==
  \E n \in PoolSizes : \E greater \in 0..3 : \E stat_value \in ScoreValues :
    greater <= n /\ ScoreAgainst(stat_value, PoolOf(n, greater, stat_value))

NextSession ==
  \/ \E row_index \in 0..4 : \E s \in SessionSubmissions : \E mode \in SortModes :
       SubmitPlayer(row_index, s.player_name, s.year, mode)
  \/ ToggleEasyMode

NextTier == \E percentile \in 0..MaxPercentile : GetTier(percentile)

\* Concurrent calls of generate_puzzle
SpecGen == Init /\ [][NextGen]_vars

\* One call of generate_puzzle for each of many dates
SpecPuzzles == Init /\ [][NextPuzzles]_vars

\* The override store, one operation at a time
SpecStore == Init /\ [][NextStore]_vars

\* The override store with an override file that can become unparseable
SpecStoreFaults == Init /\ [][NextStoreFaults]_vars

\* The override store with writers that run side by side
SpecWriters == Init /\ [][NextWriters]_vars

\* Validation and scoring against a loaded player table
SpecGame == InitGame /\ [][NextGame]_vars

\* Validation under criteria with several populated fields
SpecCriteria == InitGame /\ [][NextCriteria]_vars

\* Scoring against pools of many sizes
SpecRank == Init /\ [][NextRank]_vars

\* The submissions of one session
SpecSession == InitSession /\ [][NextSession]_vars

\* get_tier on the percentiles from 0 to 100, in tenths
SpecTier == Init /\ [][NextTier]_vars

-----------------------------------------------------------------------------
(* Claims                                                                   *)

\* C1: generate_puzzle(date) is a function of the date alone.  Whenever a
\* call has finished, its puzzle equals the puzzle of every other finished
\* call for the same date, whether that call ran before it (seen) or is
\* interleaved with it in another process: same stat category, same five
\* rows field by field.
C1_Deterministic ==
  \A p \in Procs :
    gen[p].pc = "done" =>
      /\ seen[gen[p].date] # NoPuzzle => gen[p].puzzle = seen[gen[p].date]
      /\ \A q \in Procs :
           gen[q].pc = "done" /\ gen[q].date = gen[p].date =>
             /\ gen[q].puzzle.stat_category = gen[p].puzzle.stat_category
             /\ \A i \in 1..5 : gen[q].puzzle.rows[i] = gen[p].puzzle.rows[i]
             /\ gen[q].puzzle = gen[p].puzzle

\* Two interleaved calls for one date have both finished, after an earlier
\* call for that date had returned.
C1_Witness ==
  \E p, q \in Procs :
    /\ p # q
    /\ gen[p].pc = "done" /\ gen[q].pc = "done"
    /\ gen[p].date = gen[q].date
    /\ seen[gen[p].date] # NoPuzzle
    /\ Len(gen[p].puzzle.rows) = 5

\* C2: override precedence.  While the entry saved for a date stands (it has
\* not been deleted; saved[d] is the configuration of the latest save for d),
\* get_daily_puzzle on that date and get_current_puzzle_for_editing for that
\* date return exactly the saved configuration, whatever generation gives.
C2_OverridePrecedence ==
  /\ last.op \in {"get_daily_puzzle", "get_current_puzzle_for_editing"}
  /\ IsSet(saved[last.date])
  => /\ last.ret = saved[last.date]
     /\ last.had_override

\* A read returned a saved configuration that differs from the generated
\* puzzle of its date, with an entry for another date in the file as well.
C2_Witness ==
  /\ last.op = "get_daily_puzzle"
  /\ IsSet(saved[last.date])
  /\ last.ret = saved[last.date]
  /\ last.ret # generate_puzzle(last.date)
  /\ \E d \in StoreDates : d # last.date /\ IsSet(saved[d])

\* The result ret of replacing row i (0-based) of puzzle prior by new_row:
\* row i is new_row, the other four rows and the top-level fields are prior's.
OnlyRowChanged(prior, ret, i, new_row) ==
  /\ Len(ret.rows) = 5
  /\ ret.rows[i + 1] = new_row
  /\ \A j \in 1..5 : j # i + 1 => ret.rows[j] = prior.rows[j]
  /\ ret.date = prior.date
  /\ ret.stat_category = prior.stat_category
  /\ ret.stat_display = prior.stat_display
  /\ ret.stat_type = prior.stat_type
  /\ ret.stat_description = prior.stat_description

\* C3: row isolation.  Every step that is update_puzzle_row(d, i, newRow)
\* with 0 <= i <= 4 returns a puzzle that differs from the prior puzzle for d
\* (the override saved for d if there is one, else the generated puzzle of
\* d) in row i only, where it is newRow; and that puzzle is what the
\* override file holds for d afterwards.
C3_RowIsolation ==
  [][\A d \in StoreDates :
       /\ last'.op = "update_puzzle_row"
       /\ last'.date = d
       /\ 0 <= last'.row_index
       /\ last'.row_index <= 4
       => /\ OnlyRowChanged(IF IsSet(saved[d]) THEN saved[d] ELSE generate_puzzle(d),
                            last'.ret, last'.row_index, last'.row)
          /\ get_override(d)' = last'.ret]_vars

\* update_puzzle_row has replaced a row other than the first of a saved
\* override that differs from the generated puzzle.
C3_Witness ==
  /\ last.op = "update_puzzle_row"
  /\ last.had_override
  /\ last.row_index \in 1..4
  /\ last.ret.rows[last.row_index + 1] = last.row
  /\ last.ret.rows[1] # generate_puzzle(last.date).rows[1]
  /\ get_override(last.date) = last.ret

\* The rows of df a fantasy-rank qualifier ranks in a season: the rows of
\* that season at the qualifier's position with a rank column above 0
RankedRows(df, qualifier_info, season) ==
  {i \in 1..Len(df) :
     /\ df[i].season = season
     /\ df[i].position = qualifier_info.position
     /\ ~Get(df[i], qualifier_info.rank_column).null
     /\ Get(df[i], qualifier_info.rank_column).v > 0}

\* The ranked rows with the name of row, whatever the case of the letters
NamedRows(df, qualifier_info, row) ==
  {i \in RankedRows(df, qualifier_info, row.season) :
     to_lowercase(df[i].player) = to_lowercase(row.player)}

\* The places the player of row can have among the ranked rows in descending
\* order of the rank column: one place unless rows are tied with the
\* player's best row
RankPlaces(df, qualifier_info, row) ==
  LET column == qualifier_info.rank_column
      ranked == RankedRows(df, qualifier_info, row.season)
      named == NamedRows(df, qualifier_info, row)
      best == Max({Get(df[i], column).v : i \in named})
      above == Cardinality({i \in ranked : Get(df[i], column).v > best})
      tied == Cardinality({i \in ranked : Get(df[i], column).v = best})
      mine == Cardinality({i \in named : Get(df[i], column).v = best})
  IN (above + 1)..(above + tied - mine + 1)

\* rank is within the bound of the qualifier
WithinRank(qualifier_info, rank) ==
  /\ qualifier_info.has_max_rank => rank <= qualifier_info.max_rank
  /\ qualifier_info.has_min_rank => rank >= qualifier_info.min_rank

\* verdict is the verdict of the qualifier for a player at place rank
RankDecides(qualifier_info, row, rank, verdict) ==
  /\ verdict.ok <=> WithinRank(qualifier_info, rank)
  /\ ~verdict.ok =>
       verdict.error =
         row.player \o " was #" \o ToString(rank) \o " fantasy "
           \o qualifier_info.position \o " in " \o ToString(row.season)
           \o (IF qualifier_info.has_max_rank
               THEN " (need Top " \o ToString(qualifier_info.max_rank) \o ")"
               ELSE " (need outside Top " \o ToString(qualifier_info.min_rank - 1) \o ")")

\* C10: fantasy-rank qualifier.  The verdict of a fantasy-rank qualifier on
\* a row is decided by the player's 1-based place among the rows of the
\* row's season at the qualifier's position with a rank column above 0, in
\* descending order of the rank column: a max_rank N qualifier passes iff
\* the place is at most N, a min_rank M qualifier iff it is at least M, and
\* a failure names the place and the bound.  A player with no such row fails.
C10_FantasyRank ==
  /\ res.op = "validate_qualifier"
  /\ res.criteria.qualifier \in DOMAIN STAT_QUALIFIERS
  /\ STAT_QUALIFIERS[res.criteria.qualifier].type = "fantasy_rank"
  => IF NamedRows(player_db, STAT_QUALIFIERS[res.criteria.qualifier], res.player_row) = {}
     THEN ~res.verdict.ok
     ELSE \E rank \in RankPlaces(player_db, STAT_QUALIFIERS[res.criteria.qualifier],
                                 res.player_row) :
            RankDecides(STAT_QUALIFIERS[res.criteria.qualifier], res.player_row,
                        rank, res.verdict)

\* A quarterback with five quarterbacks above him in fantasy points that
\* season is refused by fantasy_top_5_qb, with rank 6 and Top 5 in the reason.
C10_Witness ==
  /\ res.op = "validate_qualifier"
  /\ res.criteria.qualifier = "fantasy_top_5_qb"
  /\ res.player_row.position = "QB"
  /\ RankPlaces(player_db, STAT_QUALIFIERS["fantasy_top_5_qb"], res.player_row) = {6}
  /\ ~res.verdict.ok
  /\ res.verdict.error = "Josh Allen was #6 fantasy QB in 2024 (need Top 5)"

\* row satisfies the qualifier of the criteria, evaluated in row's season
SatisfiesQualifier(df, row, qualifier_key) ==
  IF qualifier_key \notin DOMAIN STAT_QUALIFIERS THEN TRUE
  ELSE IF STAT_QUALIFIERS[qualifier_key].type = "threshold"
  THEN /\ ~Get(row, STAT_QUALIFIERS[qualifier_key].column).null
       /\ Meets(STAT_QUALIFIERS[qualifier_key].operator,
                Get(row, STAT_QUALIFIERS[qualifier_key].column).v,
                STAT_QUALIFIERS[qualifier_key].value)
  ELSE /\ NamedRows(df, STAT_QUALIFIERS[qualifier_key], row) # {}
       /\ \E rank \in RankPlaces(df, STAT_QUALIFIERS[qualifier_key], row) :
            WithinRank(STAT_QUALIFIERS[qualifier_key], rank)

\* row has a stat above 0 and satisfies every populated field of the criteria
SatisfiesCriteria(df, row, stat_category, criteria) ==
  /\ ~Get(row, stat_category).null
  /\ Get(row, stat_category).v > 0
  /\ criteria.year_start # 0 => row.season >= criteria.year_start
  /\ criteria.year_end # 0 => row.season <= criteria.year_end
  /\ criteria.team # None =>
       row.team = criteria.team \/ normalize_team(row.team) = criteria.team
  /\ criteria.position # None =>
       \/ row.position = criteria.position
       \/ /\ criteria.position \in DOMAIN POSITION_GROUPS
          /\ row.position \in Range(POSITION_GROUPS[criteria.position])
  /\ criteria.division # None =>
       /\ normalize_team(row.team) \in DOMAIN NFL_TEAMS
       /\ NFL_TEAMS[normalize_team(row.team)].division = criteria.division
  /\ criteria.conference # None =>
       /\ normalize_team(row.team) \in DOMAIN NFL_TEAMS
       /\ SubSeq(NFL_TEAMS[normalize_team(row.team)].division, 1, 3) = criteria.conference
  /\ criteria.qualifier # None => SatisfiesQualifier(df, row, criteria.qualifier)

\* C7: pool membership.  Every record get_all_valid_players returns is a
\* row of the table with a non-null stat value above 0 that satisfies every
\* populated field of the criteria: season within the years, team, position
\* group, division, conference, and the qualifier in the record's own season.
C7_PoolMembership ==
  res.op = "get_all_valid_players" =>
    \A k \in 1..Len(res.valid_players) :
      /\ res.valid_players[k] \in Range(player_db)
      /\ SatisfiesCriteria(player_db, res.valid_players[k], res.stat_category,
                           res.criteria)

\* The pool of a team row with a fantasy-rank qualifier holds a record,
\* while the table holds rows that are left out.
C7_Witness ==
  /\ res.op = "get_all_valid_players"
  /\ res.criteria.team # None
  /\ res.criteria.qualifier = "fantasy_top_5_qb"
  /\ Len(res.valid_players) > 0
  /\ Len(res.valid_players) < Len(player_db)

\* df without its row i
Remove(df, i) == SubSeq(df, 1, i - 1) \o SubSeq(df, i + 1, Len(df))

\* Removing any one row of df leaves get_all_valid_players no larger
NeverGrows(df, stat_category, criteria) ==
  \A mode \in SortModes : \A i \in 1..Len(df) :
    Len(get_all_valid_players(Remove(df, i), stat_category, criteria, mode))
      <= Len(get_all_valid_players(df, stat_category, criteria, mode))

IsFantasyRank(qualifier_key) ==
  /\ qualifier_key \in DOMAIN STAT_QUALIFIERS
  /\ STAT_QUALIFIERS[qualifier_key].type = "fantasy_rank"

\* C8, as amended: pool monotonicity.  For criteria without a fantasy-rank
\* qualifier (no qualifier, a threshold qualifier or an unknown one),
\* removing any one record from the table never makes the result of
\* get_all_valid_players larger.
C8_MonotoneWithoutRank ==
  /\ res.op = "get_all_valid_players"
  /\ ~IsFantasyRank(res.criteria.qualifier)
  => /\ NeverGrows(player_db, res.stat_category, res.criteria)
     /\ \A i \in 1..Len(player_db) : \A mode \in SortModes :
          Len(get_all_valid_players(Remove(player_db, i), res.stat_category,
                                    res.criteria, mode))
            <= Len(res.valid_players)

\* A pool under a threshold qualifier that one removal shrinks and another
\* leaves as it is.
C8_Witness ==
  /\ res.op = "get_all_valid_players"
  /\ res.criteria.qualifier = "qb_4000_pass_yards"
  /\ \E mode \in SortModes : \E i, j \in 1..Len(player_db) :
       /\ Len(get_all_valid_players(Remove(player_db, i), res.stat_category,
                                    res.criteria, mode)) < Len(res.valid_players)
       /\ Len(get_all_valid_players(Remove(player_db, j), res.stat_category,
                                    res.criteria, mode)) = Len(res.valid_players)

\* C8, as claimed: for every criteria, those with a fantasy-rank qualifier
\* included, removing any one record from the table never makes the result
\* of get_all_valid_players larger.
C8_MonotoneAlways ==
  res.op = "get_all_valid_players" =>
    NeverGrows(player_db, res.stat_category, res.criteria)

\* C9: validate_player_submission refuses a resolved record whose stat value
\* is null with 'No <stat> data for <name> in <season>' and one whose stat
\* value is 0 or less with '<name> has no <stat> in <season>', whatever the
\* criteria say, and returns no player data.
C9_StatRejections ==
  /\ res.op = "validate_player_submission"
  /\ res.validation.player_row # NoPlayerRow
  => /\ res.validation.player_row \in Range(player_db)
     /\ res.validation.player_row.season = res.year
     /\ Get(res.validation.player_row, res.stat_category).null =>
          /\ ~res.validation.is_valid
          /\ res.validation.player_data = NoPlayerData
          /\ res.validation.error =
               "No " \o res.stat_category \o " data for " \o strip(res.player_name)
                 \o " in " \o ToString(res.year)
     /\ /\ ~Get(res.validation.player_row, res.stat_category).null
        /\ Get(res.validation.player_row, res.stat_category).v <= 0
        => /\ ~res.validation.is_valid
           /\ res.validation.player_data = NoPlayerData
           /\ res.validation.error =
                strip(res.player_name) \o " has no " \o res.stat_category
                  \o " in " \o ToString(res.year)

\* A record with a stat of 0 that is also on another team than the criteria
\* ask for is refused for its stat.
C9_Witness ==
  /\ res.op = "validate_player_submission"
  /\ res.validation.player_row # NoPlayerRow
  /\ ~Get(res.validation.player_row, res.stat_category).null
  /\ Get(res.validation.player_row, res.stat_category).v = 0
  /\ res.criteria.team # None
  /\ res.validation.player_row.team # res.criteria.team
  /\ res.validation.error = "juszczyk has no passing_yards in 2024"

\* The stat values of the pool that score_submission ranked the submission in
PoolValues ==
  [k \in 1..Len(res.score.valid_players) |->
     Get(res.score.valid_players[k], res.stat_category).v]

\* C4: percentile correctness.  For a pool of N > 0 values and a submission
\* value v, the percentile score_submission returns is 100 * (number of pool
\* values <= v) / N to the nearest tenth (a percentile is in tenths here);
\* when v is at least every pool value it is 100 and the tier is diamond.
C4_Percentile ==
  /\ res.op = "score_submission"
  /\ Len(res.score.valid_players) > 0
  => /\ \E mode \in SortModes :
          res.score.valid_players =
            get_all_valid_players(player_db, res.stat_category, res.criteria, mode)
     /\ res.score.total_valid = Len(PoolValues)
     /\ 2 * (res.score.percentile * Len(PoolValues)
               - 1000 * Cardinality({k \in 1..Len(PoolValues) :
                                       PoolValues[k] <= res.player_data.stat_value}))
          <= Len(PoolValues)
     /\ 2 * (1000 * Cardinality({k \in 1..Len(PoolValues) :
                                   PoolValues[k] <= res.player_data.stat_value})
               - res.score.percentile * Len(PoolValues))
          <= Len(PoolValues)
     /\ (\A k \in 1..Len(PoolValues) : PoolValues[k] <= res.player_data.stat_value)
          => res.score.percentile = 1000 /\ res.score.tier = "diamond"

\* A submission in the middle of a pool whose percentile is not a whole
\* number of tenths before rounding.
C4_Witness ==
  /\ res.op = "score_submission"
  /\ Len(res.score.valid_players) > 2
  /\ (1000 * Cardinality({k \in 1..Len(PoolValues) :
                            PoolValues[k] <= res.player_data.stat_value}))
       % Len(PoolValues) # 0
  /\ res.score.percentile > 0
  /\ res.score.percentile < 1000

\* C5: empty pool.  When get_all_valid_players returns no record (the stat
\* column is absent, no row passes the filters or no row passes the
\* qualifier), score_submission returns percentile 100, tier diamond, rank 1
\* and total_valid 1.
C5_EmptyPool ==
  /\ res.op = "score_submission"
  /\ \E mode \in SortModes :
       Len(get_all_valid_players(player_db, res.stat_category, res.criteria, mode)) = 0
  /\ Len(res.score.valid_players) = 0
  => /\ res.score.scored
     /\ res.score.percentile = 1000
     /\ res.score.tier = "diamond"
     /\ res.score.rank = 1
     /\ res.score.total_valid = 1
     /\ res.score.score = res.player_data.stat_value

\* A submission is scored against a table with rows that pass every filter
\* but none that passes the qualifier.
C5_Witness ==
  /\ res.op = "score_submission"
  /\ res.criteria.qualifier = "qb_4000_pass_yards"
  /\ Len(filter_rows(player_db, res.stat_category, res.criteria)) > 0
  /\ Len(res.score.valid_players) = 0
  /\ res.score.percentile = 1000
  /\ res.score.total_valid = 1

\* C6: tier boundaries.  get_tier is a step function of the percentile
\* alone, closed at the lower end of each band (percentiles in tenths):
\* >= 100 diamond, 90 to below 100 gold, 75 to below 90 silver, 50 to below
\* 75 bronze, below 50 iron; it never falls as the percentile rises; and
\* 100, 99.9, 90, 89.9, 75, 74.9, 50, 49.9 give diamond, gold, gold,
\* silver, silver, bronze, bronze, iron.
C6_TierBoundaries ==
  res.op = "get_tier" =>
    /\ res.tier = (IF res.percentile >= 1000 THEN "diamond"
                   ELSE IF res.percentile >= 900 THEN "gold"
                   ELSE IF res.percentile >= 750 THEN "silver"
                   ELSE IF res.percentile >= 500 THEN "bronze"
                   ELSE "iron")
    /\ res.percentile = 1000 => res.tier = "diamond"
    /\ res.percentile = 999 => res.tier = "gold"
    /\ res.percentile = 900 => res.tier = "gold"
    /\ res.percentile = 899 => res.tier = "silver"
    /\ res.percentile = 750 => res.tier = "silver"
    /\ res.percentile = 749 => res.tier = "bronze"
    /\ res.percentile = 500 => res.tier = "bronze"
    /\ res.percentile = 499 => res.tier = "iron"
    /\ \A lower \in 0..res.percentile :
         get_tier(lower) \in
           CASE res.tier = "diamond" -> {"iron", "bronze", "silver", "gold", "diamond"}
             [] res.tier = "gold" -> {"iron", "bronze", "silver", "gold"}
             [] res.tier = "silver" -> {"iron", "bronze", "silver"}
             [] res.tier = "bronze" -> {"iron", "bronze"}
             [] res.tier = "iron" -> {"iron"}

\* get_tier has been asked for the tier of 89.9
C6_Witness ==
  /\ res.op = "get_tier"
  /\ res.percentile = 899
  /\ res.tier = "silver"

\* criteria without its qualifier
WithoutQualifier(criteria) ==
  [criteria EXCEPT !.qualifier = None, !.qualifier_type = None,
                   !.qualifier_display = None]

\* A qualifier key that is set and that STAT_QUALIFIERS does not have
UnknownQualifier(qualifier_key) ==
  qualifier_key # None /\ qualifier_key \notin DOMAIN STAT_QUALIFIERS

\* C11: permissive default.  validate_qualifier with a key that is not in
\* STAT_QUALIFIERS returns (True, "") for every row and season, and with
\* such a key in the criteria validate_player_submission,
\* get_all_valid_players and find_player_best_year return what they return
\* for the same criteria without a qualifier.
C11_UnknownQualifierPasses ==
  UnknownQualifier(res.criteria.qualifier) =>
    /\ res.op = "validate_qualifier" => res.verdict = Verdict(TRUE, "")
    /\ res.op = "validate_player_submission" =>
         \E mode \in SortModes :
           res.validation =
             validate_player_submission(player_db, res.player_name, res.year,
                                        res.stat_category,
                                        WithoutQualifier(res.criteria), mode)
    /\ res.op = "get_all_valid_players" =>
         \E mode \in SortModes :
           res.valid_players =
             get_all_valid_players(player_db, res.stat_category,
                                   WithoutQualifier(res.criteria), mode)
    /\ res.op = "find_player_best_year" =>
         \E mode \in SortModes :
           res.player_data =
             find_player_best_year(player_db, res.player_name, res.stat_category,
                                   WithoutQualifier(res.criteria), mode)

\* A submission is accepted under criteria whose qualifier key is unknown.
C11_Witness ==
  /\ res.op = "validate_player_submission"
  /\ UnknownQualifier(res.criteria.qualifier)
  /\ res.validation.is_valid
  /\ res.validation.player_data.stat_value > 0

\* C12: every row of every puzzle the system serves has year_start <=
\* year_end, whether the puzzle was generated or stored as an override
\* through the admin form (save_override) or the admin row editor
\* (update_puzzle_row).
C12_YearsOrdered ==
  last.op \in {"get_daily_puzzle", "get_current_puzzle_for_editing"} =>
    \A i \in 1..Len(last.ret.rows) :
      last.ret.rows[i].year_start <= last.ret.rows[i].year_end

\* C13: a failure to read or parse the override file surfaces to the
\* caller as an error: an operation of the store that met the failure
\* (get_daily_puzzle and get_current_puzzle_for_editing through
\* get_override, save_override, update_puzzle_row) raised, and did not go
\* on with an empty store.
C13_LoadFailureSurfaces ==
  last.load_failed => last.raised

\* row passes the qualifier whatever place it is given among rows tied
\* with it
SurelySatisfiesQualifier(df, row, qualifier_key) ==
  IF ~IsFantasyRank(qualifier_key) THEN SatisfiesQualifier(df, row, qualifier_key)
  ELSE /\ NamedRows(df, STAT_QUALIFIERS[qualifier_key], row) # {}
       /\ \A rank \in RankPlaces(df, STAT_QUALIFIERS[qualifier_key], row) :
            WithinRank(STAT_QUALIFIERS[qualifier_key], rank)

\* The rows of df find_player_best_year chooses among: the name contains
\* player_name, whatever the case, the stat is above 0 and every populated
\* field of the criteria but the qualifier is satisfied
BestYearCandidates(df, player_name, stat_category, criteria) ==
  {i \in 1..Len(df) :
     /\ contains(to_lowercase(df[i].player), to_lowercase(player_name))
     /\ SatisfiesCriteria(df, df[i], stat_category, WithoutQualifier(criteria))}

\* C14: find_player_best_year returns the record with the greatest stat
\* value among the records whose name contains the candidate name that
\* satisfy every populated non-qualifier criteria field, have a stat value
\* above 0 and pass the qualifier in their own season; it returns None
\* exactly when there is no such record.
C14_BestYear ==
  res.op = "find_player_best_year" =>
    LET among == BestYearCandidates(player_db, res.player_name, res.stat_category,
                                    res.criteria)
        may == {i \in among : res.criteria.qualifier # None =>
                  SatisfiesQualifier(player_db, player_db[i], res.criteria.qualifier)}
        must == {i \in among : res.criteria.qualifier # None =>
                   SurelySatisfiesQualifier(player_db, player_db[i],
                                            res.criteria.qualifier)}
    IN IF res.player_data.found
       THEN \E i \in may :
              /\ res.player_data.player = player_db[i].player
              /\ res.player_data.season = player_db[i].season
              /\ res.player_data.team = player_db[i].team
              /\ res.player_data.position = player_db[i].position
              /\ res.player_data.stat_value = Get(player_db[i], res.stat_category).v
              /\ \A j \in must :
                   Get(player_db[j], res.stat_category).v <= res.player_data.stat_value
       ELSE must = {}

\* C15: rank with ties.  For a pool that is not empty, the rank
\* score_submission returns is the number of pool values strictly greater
\* than the submission value, plus 1; it is the same whatever the order of
\* the tied records in the pool, and so the same for equal values.
C15_RankWithTies ==
  /\ res.op = "score_submission"
  /\ Len(res.score.valid_players) > 0
  => /\ res.score.rank =
          Cardinality({k \in 1..Len(PoolValues) :
                         PoolValues[k] > res.player_data.stat_value}) + 1
     /\ \A mode \in SortModes :
          LET other == score_submission(player_db, res.player_data, res.stat_category,
                                        res.criteria, mode)
          IN Len(other.valid_players) = Len(res.score.valid_players)
               => other.rank = res.score.rank

\* A submission tied with two records of the pool, below others
C15_Witness ==
  /\ res.op = "score_submission"
  /\ Cardinality({k \in 1..Len(PoolValues) :
                    PoolValues[k] = res.player_data.stat_value}) >= 2
  /\ res.score.rank > 1
  /\ res.score.rank <= Len(PoolValues) - 1

\* The sum of the stat values of the rows that hold a submission
RECURSIVE AcceptedTotal(_)
AcceptedTotal(submissions) ==
  IF Len(submissions) = 0 THEN 0
  ELSE (IF submissions[1].found THEN submissions[1].stat_value ELSE 0)
         + AcceptedTotal(Tail(submissions))

\* The total score of the session is the sum over the rows that hold an
\* accepted submission of its score, which is its stat value
TotalIsSumOfAccepted ==
  /\ \A i \in 1..5 :
       /\ session_state.scores[i].scored = session_state.submissions[i].found
       /\ session_state.scores[i].scored =>
            session_state.scores[i].score = session_state.submissions[i].stat_value
  /\ calculate_total_score(session_state.scores)
       = AcceptedTotal(session_state.submissions)

\* What an attempt does to the session: the guess is counted; a rejected
\* attempt changes no submission and no score; an accepted one fills its
\* row only and adds its stat value to the total; the total never decreases
AttemptKeepsOrAdds ==
  /\ calculate_total_score(session_state.scores')
       >= calculate_total_score(session_state.scores)
  /\ (res'.op = "submit_player" /\ <<res, session_state>>' # <<res, session_state>>)
       => /\ session_state'.total_guesses = session_state.total_guesses + 1
          /\ ~res'.validation.is_valid =>
               /\ session_state'.submissions = session_state.submissions
               /\ session_state'.scores = session_state.scores
          /\ res'.validation.is_valid =>
               /\ \A i \in 1..5 : i # res'.row_index + 1 =>
                    /\ session_state'.submissions[i] = session_state.submissions[i]
                    /\ session_state'.scores[i] = session_state.scores[i]
               /\ calculate_total_score(session_state.scores')
                    = calculate_total_score(session_state.scores)
                        + res'.validation.player_data.stat_value

\* C16: after any sequence of submission attempts the total score is the
\* sum of the scores (stat values) of the rows that hold an accepted
\* submission; a rejected attempt changes no row's submission or score and
\* leaves the total as it is, and is still counted as a guess; the total
\* never decreases.
C16_TotalScore ==
  /\ []TotalIsSumOfAccepted
  /\ [][AttemptKeepsOrAdds]_vars

\* An attempt is rejected after another was accepted: the total is kept
\* and both are counted
C16_Witness ==
  /\ res.op = "submit_player"
  /\ ~res.validation.is_valid
  /\ session_state.total_guesses >= 2
  /\ calculate_total_score(session_state.scores) > 0

\* C17: with a team criterion, get_all_valid_players keeps every record
\* with a stat value above 0, in the year range, whose team is the criteria
\* team or any of its historical name variants (OAK and RAI for LV, SD for
\* LAC, LA, STL and RAM for LAR, PHO for ARI): the team test of
\* validate_player_submission.
C17_PoolKeepsTeamVariants ==
  /\ res.op = "get_all_valid_players"
  /\ res.criteria.team # None
  /\ res.criteria.position = None
  /\ res.criteria.division = None
  /\ res.criteria.conference = None
  /\ res.criteria.qualifier = None
  => \A i \in 1..Len(player_db) :
       /\ ~Get(player_db[i], res.stat_category).null
       /\ Get(player_db[i], res.stat_category).v > 0
       /\ player_db[i].season >= res.criteria.year_start
       /\ player_db[i].season <= res.criteria.year_end
       /\ player_db[i].team \in Range(get_team_variants(res.criteria.team))
       => player_db[i] \in Range(res.valid_players)

\* The rows of df that a candidate name and a season match: the name
\* contains the candidate name, whatever the case, or, when no name does,
\* equals it
MatchingRows(df, player_name, year) ==
  LET name == to_lowercase(strip(player_name))
      within == {i \in 1..Len(df) :
                   contains(to_lowercase(df[i].player), name) /\ df[i].season = year}
      same == {i \in 1..Len(df) :
                 to_lowercase(df[i].player) = name /\ df[i].season = year}
  IN IF within # {} THEN within ELSE same

\* The stat rejections of validate_player_submission
StatRejections(player_name, year, stat_category) ==
  {"No " \o stat_category \o " data for " \o strip(player_name) \o " in " \o ToString(year),
   strip(player_name) \o " has no " \o stat_category \o " in " \o ToString(year)}

\* C18: candidate resolution.  validate_player_submission resolves (name,
\* season) to the record with the greatest stat value among the records of
\* the season whose name contains the candidate name, whatever the case (or
\* equals it when none contains it); when a matching record has a stat value
\* above 0 the submission is not rejected for a missing or zero stat; when
\* no record matches it is rejected with "Player '<name>' not found for year
\* <season>".
C18_CandidateResolution ==
  res.op = "validate_player_submission" =>
    LET matches == MatchingRows(player_db, res.player_name, res.year)
        stat(i) == Get(player_db[i], res.stat_category)
    IN IF matches = {}
       THEN /\ ~res.validation.is_valid
            /\ res.validation.error =
                 "Player '" \o strip(res.player_name) \o "' not found for year "
                   \o ToString(res.year)
       ELSE /\ \E i \in matches :
                 /\ res.validation.player_row = player_db[i]
                 /\ \A j \in matches :
                      ~stat(j).null => ~stat(i).null /\ stat(i).v >= stat(j).v
            /\ (\E j \in matches : ~stat(j).null /\ stat(j).v > 0) =>
                 res.validation.error \notin
                   StatRejections(res.player_name, res.year, res.stat_category)

\* The populated criteria fields but the qualifier, in the order team,
\* year_start, year_end, position, division, conference, that row fails
\* for the year
FailingFields(row, year, criteria) ==
  {k \in 1..6 :
     CASE k = 1 -> /\ Truthy(criteria.team)
                   /\ row.team \notin Range(get_team_variants(criteria.team))
       [] k = 2 -> TruthyYear(criteria.year_start) /\ year < criteria.year_start
       [] k = 3 -> TruthyYear(criteria.year_end) /\ year > criteria.year_end
       [] k = 4 -> /\ Truthy(criteria.position)
                   /\ row.position # criteria.position
                   /\ ~(/\ criteria.position \in DOMAIN POSITION_GROUPS
                        /\ row.position \in Range(POSITION_GROUPS[criteria.position]))
       [] k = 5 -> /\ Truthy(criteria.division)
                   /\ ~(/\ normalize_team(row.team) \in DOMAIN NFL_TEAMS
                        /\ NFL_TEAMS[normalize_team(row.team)].division = criteria.division)
       [] k = 6 -> /\ Truthy(criteria.conference)
                   /\ ~(/\ normalize_team(row.team) \in DOMAIN NFL_TEAMS
                        /\ contains(NFL_TEAMS[normalize_team(row.team)].division,
                                    criteria.conference))}

\* What tells the reason of field k from the reasons of the other fields
ReasonOf(k, criteria) ==
  CASE k = 1 -> " was not on "
    [] k = 2 -> " is before " \o ToString(criteria.year_start)
    [] k = 3 -> " is after " \o ToString(criteria.year_end)
    [] k = 4 -> " is not a " \o criteria.position
    [] k = 5 -> "'s team was not in " \o criteria.division \o " in "
    [] k = 6 -> "'s team was not in " \o criteria.conference \o " in "

\* The submission was resolved to a record with a stat value above 0, so
\* the criteria fields were checked
CriteriaChecked ==
  /\ res.op = "validate_player_submission"
  /\ res.validation.player_row # NoPlayerRow
  /\ ~Get(res.validation.player_row, res.stat_category).null
  /\ Get(res.validation.player_row, res.stat_category).v > 0

\* C19: check order and short-circuit.  validate_player_submission checks
\* the populated criteria fields in the order team, year_start, year_end,
\* position, division, conference, qualifier and returns the reason of the
\* first failing check; the qualifier decides only when every other
\* populated field passes; the submission is accepted iff every populated
\* field passes.
C19_CheckOrder ==
  CriteriaChecked =>
    LET row == res.validation.player_row
        failing == FailingFields(row, res.year, res.criteria)
        first == CHOOSE k \in failing : \A other \in failing : k <= other
    IN IF failing # {}
       THEN /\ ~res.validation.is_valid
            /\ contains(res.validation.error, ReasonOf(first, res.criteria))
       ELSE IF Truthy(res.criteria.qualifier)
       THEN \E mode \in SortModes :
              LET verdict == validate_qualifier(player_db, row, res.criteria.qualifier,
                                                res.year, mode)
              IN /\ res.validation.is_valid = verdict.ok
                 /\ ~verdict.ok => res.validation.error = verdict.error
       ELSE res.validation.is_valid

\* A record fails position and the qualifier at once, and is rejected for
\* its position.
C19_Witness ==
  /\ CriteriaChecked
  /\ FailingFields(res.validation.player_row, res.year, res.criteria) = {4}
  /\ \A mode \in SortModes :
       ~validate_qualifier(player_db, res.validation.player_row, res.criteria.qualifier,
                           res.year, mode).ok
  /\ contains(res.validation.error, " is not a RB")

\* The rows of rows that carry a qualifier
QualifierRows(rows) == {i \in 1..Len(rows) : rows[i].qualifier # None}

\* row carries a team, division, conference or position criterion
TeamBased(row) ==
  \/ row.team # None
  \/ row.division # None
  \/ row.conference # None
  \/ row.position # None

\* C20: every generated puzzle has exactly five rows, of which 2 or 3
\* carry a qualifier and the remaining 3 or 2 carry a team, division,
\* conference or position criterion, whatever the stat category.
C20_PuzzleShape ==
  \A p \in Procs :
    gen[p].pc = "done" =>
      /\ Len(gen[p].puzzle.rows) = 5
      /\ Cardinality(QualifierRows(gen[p].puzzle.rows)) \in {2, 3}
      /\ \A i \in 1..5 :
           i \notin QualifierRows(gen[p].puzzle.rows) => TeamBased(gen[p].puzzle.rows[i])

\* C21: row 0 of every generated puzzle is the simpler kind.  After the
\* shuffle and the swap its kind is team_based; it carries no qualifier and
\* it carries a team criterion, never a division, a conference or a
\* position.
C21_FirstRowTeam ==
  \A p \in Procs :
    /\ gen[p].pc \in {"rows", "assemble", "done"} => gen[p].row_types[1] = "team_based"
    /\ gen[p].pc \in {"rows", "assemble", "done"} /\ Len(gen[p].rows) >= 1 =>
         /\ gen[p].rows[1].qualifier = None
         /\ gen[p].rows[1].team \in Range(TeamKeys)
         /\ gen[p].rows[1].division = None
         /\ gen[p].rows[1].conference = None
         /\ gen[p].rows[1].position = None
    /\ gen[p].pc = "done" => gen[p].puzzle.rows[1] = gen[p].rows[1]

\* A finished puzzle with three rows of the qualifier kind, the first row
\* on a team.
C21_Witness ==
  /\ gen[1].pc = "done"
  /\ Cardinality({i \in 1..5 : gen[1].row_types[i] = "qualifier"}) = 3
  /\ Cardinality(QualifierRows(gen[1].puzzle.rows)) = 3
  /\ gen[1].puzzle.rows[1].team # None

\* The fields among team, division, conference and position that row
\* populates
PlaceFields(row) ==
  {f \in {"team", "division", "conference", "position"} :
     CASE f = "team" -> row.team # None
       [] f = "division" -> row.division # None
       [] f = "conference" -> row.conference # None
       [] f = "position" -> row.position # None}

\* C22: in every generated row at most one of team, division, conference
\* and position is populated; a row that carries a qualifier populates none
\* of them and a row without a qualifier populates exactly one.
C22_OneField ==
  \A p \in Procs : \A i \in 1..Len(gen[p].rows) :
    /\ Cardinality(PlaceFields(gen[p].rows[i])) <= 1
    /\ gen[p].rows[i].qualifier # None => PlaceFields(gen[p].rows[i]) = {}
    /\ gen[p].rows[i].qualifier = None => Cardinality(PlaceFields(gen[p].rows[i])) = 1

\* A finished puzzle with qualifier rows, a division or conference row and
\* a position row.
C22_Witness ==
  /\ gen[1].pc = "done"
  /\ QualifierRows(gen[1].puzzle.rows) # {}
  /\ \E i \in 1..5 : PlaceFields(gen[1].puzzle.rows[i]) = {"position"}
  /\ \E i \in 1..5 : PlaceFields(gen[1].puzzle.rows[i]) \in {{"division"}, {"conference"}}

\* No two rows of rows hold the same populated value of a field, Of(row)
\* being the value of the field
NoRepeat(rows, Of(_)) ==
  \A i \in 1..Len(rows) : \A j \in 1..Len(rows) :
    i # j /\ Of(rows[i]) # None => Of(rows[i]) # Of(rows[j])

\* C23: within one generated puzzle no team, no position and no qualifier
\* key appears in more than one row; a position criterion appears only when
\* the stat category has more than one eligible position, and every chosen
\* qualifier is compatible with the stat category of the puzzle.
C23_NoRepeats ==
  \A p \in Procs :
    LET TeamOf(row) == row.team
        PositionOf(row) == row.position
        QualifierOf(row) == row.qualifier
    IN /\ NoRepeat(gen[p].rows, TeamOf)
       /\ NoRepeat(gen[p].rows, PositionOf)
       /\ NoRepeat(gen[p].rows, QualifierOf)
       /\ \A i \in 1..Len(gen[p].rows) :
            /\ gen[p].rows[i].position # None =>
                 /\ Len(STAT_CATEGORIES[gen[p].stat_category].eligible_positions) > 1
                 /\ gen[p].rows[i].position \in
                      Range(STAT_CATEGORIES[gen[p].stat_category].eligible_positions)
            /\ gen[p].rows[i].qualifier # None =>
                 gen[p].rows[i].qualifier \in
                   Range(get_compatible_qualifiers(gen[p].stat_category))
       /\ gen[p].pc = "done" =>
            /\ gen[p].puzzle.rows = gen[p].rows
            /\ gen[p].puzzle.stat_category = gen[p].stat_category

\* A finished puzzle with two or more rows with qualifiers and two or more
\* rows on positions or on teams.
C23_Witness ==
  /\ gen[1].pc = "done"
  /\ Cardinality(QualifierRows(gen[1].puzzle.rows)) >= 2
  /\ \/ Cardinality({i \in 1..5 : gen[1].puzzle.rows[i].position # None}) >= 2
     \/ Cardinality({i \in 1..5 : gen[1].puzzle.rows[i].team # None}) >= 2

\* The years of a row span 5, 10, 15 or 20 years within 1999..2024
YearsInRange(year_start, year_end) ==
  /\ year_end - year_start \in {5, 10, 15, 20}
  /\ 1999 <= year_start
  /\ year_end <= 2024

\* C24: every generated row has a year span with year_end - year_start in
\* {5, 10, 15, 20}, 1999 <= year_start and year_end <= 2024, whatever the
\* state of the generator; the start year is never drawn from an empty
\* range.
C24_YearRange ==
  \A p \in Procs :
    /\ \A i \in 1..Len(gen[p].rows) :
         YearsInRange(gen[p].rows[i].year_start, gen[p].rows[i].year_end)
    /\ gen[p].pc = "rows" =>
         LET range_size == Choice(rngs[RngSlot(p)], <<5, 10, 15, 20>>)
             drawn == generate_year_range(rngs[RngSlot(p)])
         IN /\ MinYear <= CURRENT_YEAR - range_size.v
            /\ YearsInRange(drawn.year_start, drawn.year_end)
            /\ drawn.year_end = drawn.year_start + range_size.v

\* A finished puzzle with a row that starts in 1999 or ends in 2024, a row
\* that spans 5 years and a row that spans 20.
C24_Witness ==
  /\ gen[1].pc = "done"
  /\ \E i \in 1..5 :
       \/ gen[1].puzzle.rows[i].year_start = 1999
       \/ gen[1].puzzle.rows[i].year_end = 2024
  /\ \E i \in 1..5 : \E j \in 1..5 :
       gen[1].puzzle.rows[i].year_end - gen[1].puzzle.rows[i].year_start = 5
       /\ gen[1].puzzle.rows[j].year_end - gen[1].puzzle.rows[j].year_start = 20

C26_AcceptedIsInPool ==
  res.op = "submit_player" /\ res.validation.is_valid =>
    LET scored == session_state.scores[res.row_index + 1]
    IN /\ scored.scored
       /\ Len(scored.valid_players) > 0
       /\ res.validation.player_row \in Range(scored.valid_players)
       /\ 1 <= scored.rank
       /\ scored.rank <= scored.total_valid
       /\ scored.percentile > 0

\* C27: diamond means best answer.  For a pool that is not empty, of any
\* size, score_submission returns the tier diamond only if no pool value is
\* strictly greater than the submission value (rank = 1): rounding the
\* percentile to one decimal never lifts an answer that is not the best to
\* 100.
C27_DiamondIsBest ==
  /\ res.op = "score_against"
  /\ Len(res.all_values) > 0
  /\ res.score.tier = "diamond"
  => /\ \A i \in 1..Len(res.all_values) :
          res.all_values[i] <= res.player_data.stat_value
     /\ res.score.rank = 1

\* validate_player_submission accepts player_name for the year under the
\* call's stat category and criteria, and resolves a record of player_data's
\* player with its stat value
AcceptsBestYear(player_data, mode) ==
  LET validation == validate_player_submission(player_db, res.player_name,
                                               player_data.season, res.stat_category,
                                               res.criteria, mode)
  IN /\ validation.is_valid
     /\ validation.player_data.player = player_data.player
     /\ validation.player_data.stat_value = player_data.stat_value

\* Some season of the table is accepted for the name of the call
SomeSeasonAccepted(mode) ==
  \E i \in 1..Len(player_db) :
    validate_player_submission(player_db, res.player_name, player_db[i].season,
                               res.stat_category, res.criteria, mode).is_valid

\* C28: easy-mode round trip.  Whenever find_player_best_year returns a
\* record of season y, validate_player_submission accepts the name for y
\* and resolves a record with the same player and stat value; and whenever
\* some season of the named player would be accepted,
\* find_player_best_year does not return None.
C28_EasyModeRoundTrip ==
  res.op = "find_player_best_year" =>
    /\ res.player_data.found => \E mode \in SortModes : AcceptsBestYear(res.player_data, mode)
    /\ (\A mode \in SortModes : SomeSeasonAccepted(mode)) => res.player_data.found

\* C29: a record passes a fantasy_rank qualifier only if the record's own
\* position is the target position of the qualifier, in validate_qualifier
\* and in the qualifier filter of get_all_valid_players: a record of another
\* position is not accepted on the strength of a record of the same season
\* that shares its player name.
C29_OwnPositionRanked ==
  /\ /\ res.op = "validate_qualifier"
     /\ IsFantasyRank(res.criteria.qualifier)
     /\ res.verdict.ok
     => res.player_row.position = STAT_QUALIFIERS[res.criteria.qualifier].position
  /\ /\ res.op = "get_all_valid_players"
     /\ IsFantasyRank(res.criteria.qualifier)
     => \A k \in 1..Len(res.valid_players) :
          res.valid_players[k].position = STAT_QUALIFIERS[res.criteria.qualifier].position

-----------------------------------------------------------------------------
(* C30: writers of the override store that run side by side                 *)

\* The entry of date d in the dict a writer holds; NoPuzzle when absent
EntryOf(overrides, d) ==
  IF isoformat(d) \in DOMAIN overrides THEN overrides[isoformat(d)] ELSE NoPuzzle

\* Process p finishes its write in this step
Wrote(p) == writers[p].pc = "write" /\ writers'[p].pc = "idle"

=============================================================================
